---- MODULE Spec2Model ----
(***************************************************************************)
(* Model of medha-mcp's per-repository connection manager                  *)
(* (internal/database/manager.go, internal/tools/types.go) and of the      *)
(* embedding cache (internal/embeddings/service.go).                       *)
(***************************************************************************)
EXTENDS Integers, Sequences, FiniteSets, TLC

\* ---------------------------------------------------------------- bounds
\* Number of calls the callers issue, all together, in one behaviour.
MaxCalls == 3
\* Number of out-of-band rewrites of a repository's medha.db file.
MaxSyncs == 1
\* Number of embedding-cache calls (those IndexAll makes to GetEmbedding
\* included) and reconfigurations in one behaviour.
MaxOps == 3

\* ------------------------------------------------------------- universes
Procs == {"t1", "t2"}
Paths == {"repoA", "repoB"}
\* The repoPath strings a registry can be asked about: those, and another
\* spelling of the first.
Keys == Paths \cup {"repoA/"}
\* Every call opens at most one connection.
Handles == 1..MaxCalls
NoDB == 0
NoProc == "none"
Slugs == {"A", "B"}
Contents == {"hello", "world"}
Versions == {"v1", "v2"}
Names == {"m1", "m2"}
\* The vectors the embedding provider may answer with.
Vectors == {<<1, 0>>, <<-3, 4>>}
\* The slugs and vectors the callers of VectorSearch use; SearchSlugs
\* contains Slugs.
SearchSlugs == {"A", "B", "C"}
Points == {<<4, 3>>, <<3, 4>>, <<-4, -3>>, <<5, 0>>}
\* limit, threshold and keywordMatches arguments of the searches.
Limits == {-1, 0, 1, 2}
Thresholds == {700}
KeywordSets == {{}, {"A"}}
\* A similarity s is represented by the integer Scale * s.
Scale == 1000
\* The one caller of the search specification.
Searcher == "t1"
\* The tool contexts: one built with the manager, one without, and the
\* repository of each.
Contexts == {"managed", "bare"}
RepoPath == [c \in Contexts |-> IF c = "managed" THEN "repoA" ELSE "repoB"]

\* float32 values: an integer below Huge in magnitude is itself.  Huge is
\* the float32 2^64, whose square 2^128 is above the largest float32; Inf
\* is the infinity a float32 operation overflows to, -Huge and -Inf their
\* negatives, NaN the result of Inf / Inf, Inf - Inf and 0 * Inf.
Huge == 1073741824
Inf == 1073741825
NaN == 1073741826

\* The arguments of CosineSimilarity: of no, one, two and three components,
\* all-zero or not, with norms that are squares, and two whose squares
\* overflow.
CosInputs ==
    {<<>>, <<0>>, <<1>>, <<-1>>, <<Huge>>, <<-Huge>>,
     <<0, 0>>, <<1, 0>>, <<-3, 4>>, <<4, 3>>, <<3, 4>>, <<-4, -3>>,
     <<0, 0, 0>>, <<1, 2, 2>>, <<2, -1, 2>>}

\* The vectors handed to VectorSearch.Store beside the cache: one of as
\* many components as the provider's, one of fewer.
StoredVectors == {<<1, 0>>, <<2>>}

\* The arguments of VectorToBytes
CodecVectors ==
    {<<>>} \cup {<<x>> : x \in {-3, 0, 1, 4, 16777215}}
           \cup {<<x, y>> : x, y \in {-3, 0, 1, 4, 16777215}}

\* The arguments of BytesToVector: of every length from 0 to 9
Buffers ==
    {SubSeq(<<0, 0, 128, 63, 0, 0, 64, 192, 255>>, 1, n) : n \in 0..9}
        \cup {<<255, 255, 127, 75>>, <<0, 0, 0, 0, 1>>}
\* The batches IndexAll is called with: none, two memories, one memory twice.
Batches ==
    { <<>>,
      << [Slug |-> "A", Content |-> "hello"], [Slug |-> "B", Content |-> "world"] >>,
      << [Slug |-> "A", Content |-> "world"], [Slug |-> "A", Content |-> "hello"] >> }

VARIABLES
    userDBs,     \* Manager.userDBs : repoPath -> handle (NoDB = no entry)
    muWriter,    \* Manager.userDBsMux : holder of the write lock
    muReaders,   \* Manager.userDBsMux : holders of the read lock
    hState,      \* per connection: "unopened" | "open" | "closed" | "orphan"
    hPath,       \* per connection: the repoPath it was opened on
    hGen,        \* per connection: generation of the file it was opened on
    nextHandle,  \* next connection identity
    fileGen,     \* per repoPath: generation of {repoPath}/.medha/medha.db
    pc,          \* per caller: position in the code
    op,          \* per caller: the entry point it invoked
    arg,         \* per caller: repoPath argument
    frame,       \* per caller: "top", or "reopen" inside Manager.ReopenUserDB
    db,          \* per caller: local variable db / returned handle
    err,         \* per caller: returned error ("nil" = none)
    reg0,        \* history: userDBs when the caller took the write lock
    old0,        \* history: nextHandle when ReopenUserDB was entered
    gen0,        \* history: fileGen[arg] when ReopenUserDB was entered
    everClosed,  \* history: a close has acted on the path's entry
    calls,       \* number of calls issued so far
    \* ---- embeddings (internal/embeddings/service.go)
    store,       \* table "embeddings": slug -> record (NoRec = no row)
    enabled,     \* Service.enabled
    modelName,   \* Service.modelName
    modelVersion,\* Service.modelVersion
    now,         \* time.Now()
    ePc,         \* per caller: position in the code
    eOp,         \* per caller: the entry point it invoked
    eSlug,       \* per caller: argument slug
    eContent,    \* per caller: argument content
    eVec,        \* per caller: local variable vector
    eRes,        \* per caller: returned value
    eErr,        \* per caller: returned error ("nil" = none)
    eCalls,      \* history: client.Embed calls made by this invocation
    eAsked,      \* history: the text this invocation gave to client.Embed
    eFault,      \* history: a store access of this invocation failed
    eOn,         \* history: the service was enabled when the call began
    eWasFresh,   \* history: the record was fresh when the call looked it up
    eItems,      \* per caller: IndexAll's memories still to be ranged over
    eBatch,      \* history: the memories IndexAll was called with
    eTried,      \* history: the memories IndexAll has called GetEmbedding on
    eFails,      \* history: the GetEmbedding calls of IndexAll that failed
    eArgs,       \* per caller: limit, threshold, keywordMatches of a search
    eDeleted,    \* history: a DeleteEmbedding of the slug returned meanwhile
    srcVec,      \* history: per slug, the []float32 the stored blob encodes
    lastContent, \* history: per slug, the content the record was made from
    lastVer,     \* history: per slug, the version the record was made under
    ops,         \* number of embedding calls issued so far
    \* ---- tool contexts (internal/tools/types.go)
    tcBuilt,     \* per context: it has been constructed
    tcUserDB,    \* per context: ToolContext.UserDB (NoDB = nil)
    tcLast,      \* history: per context, the method that returned last
    tcPrev,      \* history: per context, the method that returned before it
    tcErr        \* history: per context, the error tcLast returned

mgrVars == <<userDBs, muWriter, muReaders, hState, hPath, hGen,
             nextHandle, fileGen>>
procVars == <<pc, op, arg, frame, db, err>>
histVars == <<reg0, old0, gen0, everClosed, calls>>
batchVars == <<eItems, eBatch, eTried, eFails, eArgs, eDeleted>>
embVars == <<store, enabled, modelName, modelVersion, now, ePc, eOp, eSlug,
             eContent, eVec, eRes, eErr, eCalls, eAsked, eFault, eOn,
             eWasFresh, batchVars, srcVec, lastContent, lastVer, ops>>
tcVars == <<tcBuilt, tcUserDB, tcLast, tcPrev, tcErr>>
vars == <<mgrVars, procVars, histVars, embVars, tcVars>>

EmptyRegistry == [path \in Keys |-> NoDB]

\* ---------------------------------------------------------- construction
\* NewManager: userDBs = make(map[string]*gorm.DB); no caller is running.
MgrInit ==
    /\ userDBs = EmptyRegistry
    /\ muWriter = NoProc
    /\ muReaders = {}
    /\ hState = [h \in Handles |-> "unopened"]
    /\ hPath = [h \in Handles |-> "none"]
    /\ hGen = [h \in Handles |-> 0]
    /\ nextHandle = 1
    /\ fileGen = [path \in Keys |-> 0]
    /\ pc = [p \in Procs |-> "idle"]
    /\ op = [p \in Procs |-> "none"]
    /\ arg = [p \in Procs |-> "none"]
    /\ frame = [p \in Procs |-> "top"]
    /\ db = [p \in Procs |-> NoDB]
    /\ err = [p \in Procs |-> "nil"]
    /\ reg0 = [p \in Procs |-> EmptyRegistry]
    /\ old0 = [p \in Procs |-> 0]
    /\ gen0 = [p \in Procs |-> 0]
    /\ everClosed = [path \in Keys |-> FALSE]
    /\ calls = 0

\* A caller is free to issue its next call.
AtRest(p) == pc[p] = "idle"

\* A caller invokes an entry point: the arguments of the call.
Enter(p, o, path, f) ==
    /\ AtRest(p)
    /\ calls < MaxCalls
    /\ calls' = calls + 1
    /\ op' = [op EXCEPT ![p] = o]
    /\ arg' = [arg EXCEPT ![p] = path]
    /\ frame' = [frame EXCEPT ![p] = f]

\* Returning to the caller: the frame of the call is gone.
Leave(p) ==
    /\ pc' = [pc EXCEPT ![p] = "idle"]
    /\ op' = [op EXCEPT ![p] = "none"]
    /\ arg' = [arg EXCEPT ![p] = "none"]
    /\ frame' = [frame EXCEPT ![p] = "top"]
    /\ db' = [db EXCEPT ![p] = NoDB]
    /\ err' = [err EXCEPT ![p] = "nil"]
    /\ reg0' = [reg0 EXCEPT ![p] = EmptyRegistry]
    /\ old0' = [old0 EXCEPT ![p] = 0]
    /\ gen0' = [gen0 EXCEPT ![p] = 0]

\* sync.RWMutex
CanRLock == muWriter = NoProc

\* A write lock that does not wait for the readers to leave.
CanLock_NoWait == muWriter = NoProc

CanLock == muWriter = NoProc /\ muReaders = {}

\* ------------------------------------------------- Manager.GetUserDB
\* m.userDBsMux.RLock(); db, ok := m.userDBs[repoPath]
Lookup(p, path) ==
    /\ CanRLock
    /\ muReaders' = muReaders \cup {p}
    /\ db' = [db EXCEPT ![p] = userDBs[path]]
    /\ pc' = [pc EXCEPT ![p] = "g_runlock"]
    /\ UNCHANGED <<userDBs, muWriter, hState, hPath, hGen, nextHandle,
                   fileGen, err, reg0, everClosed>>

\* NewToolContextWithManager calls mgr.GetUserDB(repoPath), which begins
\* with the lookup under the read lock.
StartGet(p, path) ==
    /\ Enter(p, "get", path, "top")
    /\ Lookup(p, path)
    /\ UNCHANGED <<old0, gen0>>
    /\ UNCHANGED <<embVars, tcVars>>

\* The lookup of the GetUserDB that ReopenUserDB calls.
GetRLock(p) ==
    /\ pc[p] = "g_rlock"
    /\ Lookup(p, arg[p])
    /\ UNCHANGED <<op, arg, frame, old0, gen0, calls>>
    /\ UNCHANGED <<embVars, tcVars>>

\* m.userDBsMux.RUnlock(); return db, nil when the entry was found
GetRUnlock(p) ==
    /\ pc[p] = "g_runlock"
    /\ muReaders' = muReaders \ {p}
    /\ pc' = [pc EXCEPT ![p] = IF db[p] # NoDB THEN "g_ret" ELSE "g_lock"]
    /\ UNCHANGED <<userDBs, muWriter, hState, hPath, hGen, nextHandle,
                   fileGen, op, arg, frame, db, err, histVars>>
    /\ UNCHANGED <<embVars, tcVars>>

\* GetUserDBPath: filepath.Join(repoPath, ".medha", "medha.db"), which
\* cleans its result: a trailing separator of repoPath is gone.  Tabulated
\* on Keys.
GetUserDBPath(repoPath) ==
    CASE repoPath = "repoA" -> "repoA/.medha/medha.db"
      [] repoPath = "repoA/" -> "repoA/.medha/medha.db"
      [] repoPath = "repoB" -> "repoB/.medha/medha.db"

\* Outcomes of OpenUserDB: success, or the failure of MkdirAll, gorm.Open,
\* MigrateUserDB or CreateUserIndexes.
OpenOutcomes == {"ok", "mkdir", "open", "migrate", "index"}

\* db, err := OpenUserDB(repoPath); if err != nil { return nil, err };
\* m.userDBs[repoPath] = db.  gorm.Open creates the connection; a failure
\* of the migration or of the index creation returns the error without
\* closing it ("orphan").
OpenUserDB(p) ==
    \E outcome \in OpenOutcomes :
        IF outcome \in {"mkdir", "open"}
        THEN /\ err' = [err EXCEPT ![p] = "openErr"]
             /\ UNCHANGED <<userDBs, hState, hPath, hGen, nextHandle, db>>
        ELSE /\ nextHandle <= MaxCalls
             /\ hPath' = [hPath EXCEPT ![nextHandle] = arg[p]]
             /\ hGen' = [hGen EXCEPT ![nextHandle] = fileGen[arg[p]]]
             /\ nextHandle' = nextHandle + 1
             /\ IF outcome = "ok"
                THEN /\ hState' = [hState EXCEPT ![nextHandle] = "open"]
                     /\ db' = [db EXCEPT ![p] = nextHandle]
                     /\ userDBs' = [userDBs EXCEPT ![arg[p]] = nextHandle]
                     /\ UNCHANGED err
                ELSE /\ hState' = [hState EXCEPT ![nextHandle] = "orphan"]
                     /\ err' = [err EXCEPT ![p] = "openErr"]
                     /\ UNCHANGED <<userDBs, db>>

\* GetCheck without the double-check: always opens.
GetCheck_NoRecheck(p) ==
    /\ pc[p] = "g_lock"
    /\ CanLock
    /\ muWriter' = p
    /\ pc' = [pc EXCEPT ![p] = "g_unlock"]
    /\ OpenUserDB(p)
    /\ UNCHANGED <<muReaders, fileGen, op, arg, frame, histVars>>
    /\ UNCHANGED <<embVars, tcVars>>

\* m.userDBsMux.Lock(); double-check after acquiring write lock: return the
\* entry if there is one, else open and register.
GetCheck(p) ==
    /\ pc[p] = "g_lock"
    /\ CanLock
    /\ muWriter' = p
    /\ pc' = [pc EXCEPT ![p] = "g_unlock"]
    /\ IF userDBs[arg[p]] # NoDB
       THEN /\ db' = [db EXCEPT ![p] = userDBs[arg[p]]]
            /\ UNCHANGED <<userDBs, hState, hPath, hGen, nextHandle, err>>
       ELSE OpenUserDB(p)
    /\ UNCHANGED <<muReaders, fileGen, op, arg, frame, histVars>>
    /\ UNCHANGED <<embVars, tcVars>>

\* deferred m.userDBsMux.Unlock()
GetUnlock(p) ==
    /\ pc[p] = "g_unlock"
    /\ muWriter' = NoProc
    /\ pc' = [pc EXCEPT ![p] = "g_ret"]
    /\ UNCHANGED <<userDBs, muReaders, hState, hPath, hGen, nextHandle,
                   fileGen, op, arg, frame, db, err, histVars>>
    /\ UNCHANGED <<embVars, tcVars>>

\* GetUserDB (and with it ReopenUserDB) hands db, err to its caller.
GetReturn(p) ==
    /\ pc[p] = "g_ret"
    /\ Leave(p)
    /\ UNCHANGED <<mgrVars, everClosed, calls>>
    /\ UNCHANGED <<embVars, tcVars>>

\* ------------------------------------------------ Manager.CloseUserDB
\* What a failed sqlDB.Close() leaves behind is the driver's business: the
\* connection may or may not have been released.
AfterFailedClose == {"open", "closed"}

\* What can happen to a registered connection that is being closed: the
\* outcome of db.DB(), then of sqlDB.Close() if it is reached, then what is
\* left behind if that failed.
CloseOutcomes ==
    {o \in {"ok", "err"} \X {"ok", "err"} \X AfterFailedClose :
        /\ o[1] = "err" => o[2] = "ok"
        /\ o[2] = "ok" => o[3] = "closed"}

\* sqlDB.Close() on connection h: nil, or an error.
SqlClose(h, outcome, after) ==
    IF outcome = "ok" \/ hState[h] = "closed"
    THEN [hState EXCEPT ![h] = "closed"]
    ELSE [hState EXCEPT ![h] = after]

\* CloseUserDB that closes the connection but keeps the registry entry.
CloseUserDB_KeepEntry(p, path) ==
    /\ CanLock
    /\ muWriter' = p
    /\ reg0' = [reg0 EXCEPT ![p] = userDBs]
    /\ pc' = [pc EXCEPT ![p] = "c_unlock"]
    /\ LET h == userDBs[path] IN
        IF h = NoDB
        THEN UNCHANGED <<hState, everClosed>>
        ELSE /\ everClosed' = [everClosed EXCEPT ![path] = TRUE]
             /\ hState' = SqlClose(h, "ok", "closed")
    /\ UNCHANGED <<userDBs, err, muReaders, hPath, hGen, nextHandle, fileGen,
                   db>>

\* m.userDBsMux.Lock(); if db, ok := m.userDBs[repoPath]; ok { sqlDB, err
\* := db.DB(); if err != nil return err; if err := sqlDB.Close(); err !=
\* nil return err; delete(m.userDBs, repoPath) }; return nil
CloseUserDB(p, path) ==
    /\ CanLock
    /\ muWriter' = p
    /\ reg0' = [reg0 EXCEPT ![p] = userDBs]
    /\ pc' = [pc EXCEPT ![p] = "c_unlock"]
    /\ LET h == userDBs[path] IN
        IF h = NoDB
        THEN UNCHANGED <<userDBs, hState, err, everClosed>>
        ELSE /\ everClosed' = [everClosed EXCEPT ![path] = TRUE]
             /\ \E o \in CloseOutcomes :
                 IF o[1] = "err"
                 THEN /\ err' = [err EXCEPT ![p] = "dbErr"]
                      /\ UNCHANGED <<userDBs, hState>>
                 ELSE /\ hState' = SqlClose(h, o[2], o[3])
                      /\ IF o[2] = "err"
                         THEN /\ err' = [err EXCEPT ![p] = "closeErr"]
                              /\ UNCHANGED userDBs
                         ELSE /\ userDBs' = [userDBs EXCEPT ![path] = NoDB]
                              /\ UNCHANGED err
    /\ UNCHANGED <<muReaders, hPath, hGen, nextHandle, fileGen, db>>

\* ToolContext.CloseUserDB -> Manager.CloseUserDB
StartClose(p, path) ==
    /\ Enter(p, "close", path, "top")
    /\ CloseUserDB(p, path)
    /\ UNCHANGED <<old0, gen0>>
    /\ UNCHANGED <<embVars, tcVars>>

\* The CloseUserDB that the ReopenUserDB after a synchronisation calls.
CloseLock(p) ==
    /\ pc[p] = "c_lock"
    /\ CloseUserDB(p, arg[p])
    /\ UNCHANGED <<op, arg, frame, old0, gen0, calls>>
    /\ UNCHANGED <<embVars, tcVars>>

\* CloseUserDB without the defer: it unlocks before return nil only, and
\* returns an error with the lock held.
CloseUnlock_KeepOnError(p) ==
    /\ pc[p] = "c_unlock"
    /\ muWriter' = IF err[p] = "nil" THEN NoProc ELSE muWriter
    /\ IF err[p] = "nil" /\ frame[p] = "reopen"
       THEN /\ pc' = [pc EXCEPT ![p] = "g_rlock"]
            /\ UNCHANGED <<op, arg, frame, db, err, reg0, old0, gen0>>
       ELSE IF err[p] = "nil" /\ op[p] = "sync"
       THEN /\ pc' = [pc EXCEPT ![p] = "s_window"]
            /\ UNCHANGED <<op, arg, frame, db, err, reg0, old0, gen0>>
       ELSE /\ pc' = [pc EXCEPT ![p] = "idle"]
            /\ op' = [op EXCEPT ![p] = "none"]
            /\ arg' = [arg EXCEPT ![p] = "none"]
            /\ frame' = [frame EXCEPT ![p] = "top"]
            /\ db' = [db EXCEPT ![p] = NoDB]
            /\ err' = [err EXCEPT ![p] = "nil"]
            /\ reg0' = [reg0 EXCEPT ![p] = EmptyRegistry]
            /\ old0' = [old0 EXCEPT ![p] = 0]
            /\ gen0' = [gen0 EXCEPT ![p] = 0]
    /\ UNCHANGED <<userDBs, muReaders, hState, hPath, hGen, nextHandle,
                   fileGen, everClosed, calls>>
    /\ UNCHANGED <<embVars, tcVars>>

\* deferred m.userDBsMux.Unlock(), and CloseUserDB returns: to ReopenUserDB
\* (which returns the error or goes on to GetUserDB), to the caller that is
\* about to synchronise, or to a caller that only wanted the close.
CloseUnlock(p) ==
    /\ pc[p] = "c_unlock"
    /\ muWriter' = NoProc
    /\ IF err[p] = "nil" /\ frame[p] = "reopen"
       THEN /\ pc' = [pc EXCEPT ![p] = "g_rlock"]
            /\ UNCHANGED <<op, arg, frame, db, err, reg0, old0, gen0>>
       ELSE IF err[p] = "nil" /\ op[p] = "sync"
       THEN /\ pc' = [pc EXCEPT ![p] = "s_window"]
            /\ UNCHANGED <<op, arg, frame, db, err, reg0, old0, gen0>>
       ELSE Leave(p)
    /\ UNCHANGED <<userDBs, muReaders, hState, hPath, hGen, nextHandle,
                   fileGen, everClosed, calls>>
    /\ UNCHANGED <<embVars, tcVars>>

\* ----------------------------------------------- Manager.ReopenUserDB
\* ReopenUserDB that forgets the close and goes straight to GetUserDB.
StartReopen_NoClose(p, path) ==
    /\ Enter(p, "reopen", path, "reopen")
    /\ Lookup(p, path)
    /\ old0' = [old0 EXCEPT ![p] = nextHandle]
    /\ gen0' = [gen0 EXCEPT ![p] = fileGen[path]]
    /\ UNCHANGED <<embVars, tcVars>>

\* ToolContext.ReopenUserDB -> Manager.ReopenUserDB: CloseUserDB, then
\* GetUserDB.
StartReopen(p, path) ==
    /\ Enter(p, "reopen", path, "reopen")
    /\ CloseUserDB(p, path)
    /\ old0' = [old0 EXCEPT ![p] = nextHandle]
    /\ gen0' = [gen0 EXCEPT ![p] = fileGen[path]]
    /\ UNCHANGED <<embVars, tcVars>>

\* ------------------------------------- close / external sync / reopen
\* Synchronisations done or under way.
SyncsBegun ==
    Cardinality({x \in Paths \X (1..MaxSyncs) : x[2] <= fileGen[x[1]]})
    + Cardinality({p \in Procs : op[p] = "sync" /\ frame[p] = "top"})

\* ToolContext.CloseUserDB "should be called before git sync operations".
StartSync(p, path) ==
    /\ SyncsBegun < MaxSyncs
    /\ Enter(p, "sync", path, "top")
    /\ CloseUserDB(p, path)
    /\ UNCHANGED <<old0, gen0>>
    /\ UNCHANGED <<embVars, tcVars>>

\* The synchronisation rewrites the repository's medha.db; the caller then
\* calls ToolContext.ReopenUserDB.
ExternalSync(p) ==
    /\ pc[p] = "s_window"
    /\ fileGen' = [fileGen EXCEPT ![arg[p]] = @ + 1]
    /\ frame' = [frame EXCEPT ![p] = "reopen"]
    /\ pc' = [pc EXCEPT ![p] = "c_lock"]
    /\ old0' = [old0 EXCEPT ![p] = nextHandle]
    /\ gen0' = [gen0 EXCEPT ![p] = fileGen[arg[p]] + 1]
    /\ UNCHANGED <<userDBs, muWriter, muReaders, hState, hPath, hGen,
                   nextHandle, op, arg, db, err, reg0, everClosed, calls>>
    /\ UNCHANGED <<embVars, tcVars>>

\* ------------------------------------------------------ Manager.Close
\* m.userDBsMux.Lock(); for path, db := range m.userDBs { sqlDB, err :=
\* db.DB(); if err == nil { sqlDB.Close() }; delete(m.userDBs, path) }
StartCloseAll(p) ==
    /\ Enter(p, "closeAll", "none", "top")
    /\ CanLock
    /\ muWriter' = p
    /\ reg0' = [reg0 EXCEPT ![p] = userDBs]
    /\ pc' = [pc EXCEPT ![p] = "a_unlock"]
    /\ \E outcome \in [Keys -> CloseOutcomes] :
        hState' = [h \in Handles |->
            LET paths == {path \in Keys : userDBs[path] = h} IN
            IF paths = {} THEN hState[h]
            ELSE LET o == outcome[CHOOSE path \in paths : TRUE] IN
                 IF o[1] = "err" THEN hState[h]
                 ELSE SqlClose(h, o[2], o[3])[h]]
    /\ userDBs' = EmptyRegistry
    /\ everClosed' = [path \in Keys |->
                        everClosed[path] \/ userDBs[path] # NoDB]
    /\ UNCHANGED <<muReaders, hPath, hGen, nextHandle, fileGen, db, err,
                   old0, gen0>>
    /\ UNCHANGED <<embVars, tcVars>>

\* m.userDBsMux.Unlock(); return Close(m.systemDB)
CloseAllUnlock(p) ==
    /\ pc[p] = "a_unlock"
    /\ muWriter' = NoProc
    /\ Leave(p)
    /\ UNCHANGED <<userDBs, muReaders, hState, hPath, hGen, nextHandle,
                   fileGen, everClosed, calls>>
    /\ UNCHANGED <<embVars, tcVars>>

\* =========================================================== ToolContext
\* internal/tools/types.go.  The context built by NewToolContextWithManager
\* has a DBMgr; the one built by NewToolContextV2 has none and holds a
\* connection its builder opened with database.OpenUserDB.
TcInit ==
    /\ tcBuilt = [c \in Contexts |-> FALSE]
    /\ tcUserDB = [c \in Contexts |-> NoDB]
    /\ tcLast = [c \in Contexts |-> "none"]
    /\ tcPrev = [c \in Contexts |-> "none"]
    /\ tcErr = [c \in Contexts |-> "nil"]

\* A method of context c has returned error.
TcReturned(c, method, error) ==
    /\ tcPrev' = [tcPrev EXCEPT ![c] = tcLast[c]]
    /\ tcLast' = [tcLast EXCEPT ![c] = method]
    /\ tcErr' = [tcErr EXCEPT ![c] = error]

\* NewToolContextWithManager: userDB, err := mgr.GetUserDB(repoPath)
TcNewStart(p) ==
    /\ ~tcBuilt["managed"]
    /\ StartGet(p, RepoPath["managed"])

\* if err != nil return nil, err; else return &ToolContext{UserDB: userDB,
\* RepoPath: repoPath, DBMgr: mgr}
NewToolContextWithManager(p) ==
    /\ pc[p] = "g_ret"
    /\ op[p] = "get"
    /\ Leave(p)
    /\ IF err[p] = "nil"
       THEN /\ tcBuilt' = [tcBuilt EXCEPT !["managed"] = TRUE]
            /\ tcUserDB' = [tcUserDB EXCEPT !["managed"] = db[p]]
       ELSE UNCHANGED <<tcBuilt, tcUserDB>>
    /\ UNCHANGED <<mgrVars, everClosed, calls, tcLast, tcPrev, tcErr>>
    /\ UNCHANGED embVars

\* NewToolContextV2(systemDB, userDB, repoPath) with the userDB that
\* database.OpenUserDB(repoPath) has returned: DBMgr stays nil.
NewToolContextV2 ==
    /\ ~tcBuilt["bare"]
    /\ nextHandle <= MaxCalls
    /\ hState' = [hState EXCEPT ![nextHandle] = "open"]
    /\ hPath' = [hPath EXCEPT ![nextHandle] = RepoPath["bare"]]
    /\ hGen' = [hGen EXCEPT ![nextHandle] = fileGen[RepoPath["bare"]]]
    /\ nextHandle' = nextHandle + 1
    /\ tcBuilt' = [tcBuilt EXCEPT !["bare"] = TRUE]
    /\ tcUserDB' = [tcUserDB EXCEPT !["bare"] = nextHandle]
    /\ UNCHANGED <<userDBs, muWriter, muReaders, fileGen, procVars, histVars,
                   tcLast, tcPrev, tcErr>>
    /\ UNCHANGED embVars

\* ToolContext.CloseUserDB with tc.DBMgr != nil:
\* return tc.DBMgr.CloseUserDB(tc.RepoPath)
TcCloseStart(p) ==
    /\ tcBuilt["managed"]
    /\ StartClose(p, RepoPath["managed"])

\* Manager.CloseUserDB unlocks and returns, and ToolContext.CloseUserDB
\* returns what it returned.
TcCloseReturn(p) ==
    /\ pc[p] = "c_unlock"
    /\ op[p] = "close"
    /\ muWriter' = NoProc
    /\ Leave(p)
    /\ TcReturned("managed", "close", err[p])
    /\ UNCHANGED <<userDBs, muReaders, hState, hPath, hGen, nextHandle,
                   fileGen, everClosed, calls, tcBuilt, tcUserDB>>
    /\ UNCHANGED embVars

\* ToolContext.CloseUserDB with tc.DBMgr == nil: if tc.UserDB != nil {
\* sqlDB, err := tc.UserDB.DB(); if err != nil return err; return
\* sqlDB.Close() }; return nil
TcCloseBare ==
    /\ tcBuilt["bare"]
    /\ IF tcUserDB["bare"] = NoDB
       THEN /\ TcReturned("bare", "close", "nil")
            /\ UNCHANGED hState
       ELSE \E o \in CloseOutcomes :
            IF o[1] = "err"
            THEN /\ TcReturned("bare", "close", "dbErr")
                 /\ UNCHANGED hState
            ELSE /\ hState' = SqlClose(tcUserDB["bare"], o[2], o[3])
                 /\ TcReturned("bare", "close",
                               IF o[2] = "err" THEN "closeErr" ELSE "nil")
    /\ UNCHANGED <<userDBs, muWriter, muReaders, hPath, hGen, nextHandle,
                   fileGen, procVars, histVars, tcBuilt, tcUserDB>>
    /\ UNCHANGED embVars

\* ToolContext.ReopenUserDB with tc.DBMgr != nil:
\* userDB, err := tc.DBMgr.ReopenUserDB(tc.RepoPath)
TcReopenStart(p) ==
    /\ tcBuilt["managed"]
    /\ StartReopen(p, RepoPath["managed"])

\* The step of Manager.CloseUserDB inside Manager.ReopenUserDB that goes on
\* to GetUserDB.
TcReopenGoesOn(p) ==
    /\ frame[p] = "reopen"
    /\ err[p] = "nil"
    /\ CloseUnlock(p)

\* Manager.ReopenUserDB returns, from its CloseUserDB with the error or from
\* its GetUserDB: if err != nil return err; tc.UserDB = userDB; return nil
TcReopenReturn(p) ==
    /\ op[p] = "reopen"
    /\ \/ pc[p] = "g_ret" /\ UNCHANGED muWriter
       \/ pc[p] = "c_unlock" /\ err[p] # "nil" /\ muWriter' = NoProc
    /\ Leave(p)
    /\ TcReturned("managed", "reopen", err[p])
    /\ IF err[p] = "nil"
       THEN tcUserDB' = [tcUserDB EXCEPT !["managed"] = db[p]]
       ELSE UNCHANGED tcUserDB
    /\ UNCHANGED <<userDBs, muReaders, hState, hPath, hGen, nextHandle,
                   fileGen, everClosed, calls, tcBuilt>>
    /\ UNCHANGED embVars

\* ToolContext.ReopenUserDB with tc.DBMgr == nil: return nil
TcReopenBare ==
    /\ tcBuilt["bare"]
    /\ TcReturned("bare", "reopen", "nil")
    /\ UNCHANGED <<mgrVars, procVars, histVars, tcBuilt, tcUserDB>>
    /\ UNCHANGED embVars

\* =========================================================== embeddings
\* ------------------------------------------------------- pure functions
\* CalculateContentHash: fmt.Sprintf("%x", sha256.Sum256(content)[:16]),
\* tabulated on Contents.
CalculateContentHash(content) ==
    CASE content = "hello" -> "2cf24dba5fb0a30e26e83b2ac5b9e29e"
      [] content = "world" -> "486ea46224d1bb4fb680f34f7c9ad96a"
      [] OTHER -> "e3b0c44298fc1c149afbf4c8996fb924"

RECURSIVE Pow2(_)
Pow2(n) == IF n = 0 THEN 1 ELSE 2 * Pow2(n - 1)

RECURSIVE Log2Floor(_)
Log2Floor(a) == IF a < 2 THEN 0 ELSE 1 + Log2Floor(a \div 2)

Abs(x) == IF x < 0 THEN -x ELSE x

\* math.Float32bits on an integer-valued float32: the IEEE-754 word as its
\* four bytes, most significant first.
Float32bits(v) ==
    IF v = 0 THEN <<0, 0, 0, 0>>
    ELSE LET sgn == IF v < 0 THEN 1 ELSE 0
             e == Log2Floor(Abs(v))
             ex == e + 127
             m == (Abs(v) - Pow2(e)) * Pow2(23 - e)
         IN <<sgn * 128 + ex \div 2,
              (ex % 2) * 128 + m \div 65536,
              (m \div 256) % 256,
              m % 256>>

\* math.Float32frombits on such a word.
Float32frombits(w) ==
    LET sgn == w[1] \div 128
        ex == (w[1] % 128) * 2 + w[2] \div 128
        m == (w[2] % 128) * 65536 + w[3] * 256 + w[4]
        mag == IF ex = 0 THEN 0
               ELSE IF ex >= 150 THEN (8388608 + m) * Pow2(ex - 150)
               ELSE (8388608 + m) \div Pow2(150 - ex)
    IN IF sgn = 1 THEN -mag ELSE mag

\* binary.LittleEndian.PutUint32 / Uint32
PutUint32(w) == <<w[4], w[3], w[2], w[1]>>

\* The four bytes read most significant first.
Uint32_BigEndian(b) == b

Uint32(b) == <<b[4], b[3], b[2], b[1]>>

\* VectorToBytes: buf[i*4:] = LittleEndian(Float32bits(v))
RECURSIVE VectorToBytes(_)
VectorToBytes(vector) ==
    IF vector = <<>> THEN <<>>
    ELSE PutUint32(Float32bits(Head(vector))) \o VectorToBytes(Tail(vector))

\* BytesToVector: make([]float32, len(data)/4), each from data[i*4:]
BytesToVector(data) ==
    [i \in 1..(Len(data) \div 4) |->
        Float32frombits(Uint32(SubSeq(data, 4 * (i - 1) + 1, 4 * i)))]

\* CosineSimilarity: 0 when the lengths differ or a norm is 0, else
\* dotProduct / (sqrt(normA) * sqrt(normB)).  The norms of the vectors of
\* Vectors and Points are squares, so the square roots and their product
\* are exact and the quotient is a multiple of 1 / Scale.
Sgn(x) == IF x < 0 THEN -1 ELSE 1

\* a[i] * b[i] in float32.  Of the products of 2^64 only those with 0, 1,
\* -1 and 2^64 itself are taken.
Mul32(x, y) ==
    IF x = NaN \/ y = NaN THEN NaN
    ELSE IF Abs(x) = Inf \/ Abs(y) = Inf
    THEN IF x = 0 \/ y = 0 THEN NaN ELSE Sgn(x) * Sgn(y) * Inf
    ELSE IF Abs(x) = Huge /\ Abs(y) = Huge THEN Sgn(x) * Sgn(y) * Inf
    ELSE CASE Abs(x) < Huge /\ Abs(y) < Huge -> x * y
           [] Abs(x) = Huge /\ Abs(y) <= 1 -> x * y
           [] Abs(y) = Huge /\ Abs(x) <= 1 -> x * y

\* x + y in float32.  2^64 absorbs an integer below Huge; of the sums of
\* two of 2^64 and -2^64 only the one that is 0 is taken.
Add32(x, y) ==
    IF x = NaN \/ y = NaN THEN NaN
    ELSE IF Abs(x) = Inf THEN (IF y = -x THEN NaN ELSE x)
    ELSE IF Abs(y) = Inf THEN y
    ELSE CASE Abs(x) < Huge /\ Abs(y) < Huge -> x + y
           [] Abs(x) = Huge /\ Abs(y) < Huge -> x
           [] Abs(y) = Huge /\ Abs(x) < Huge -> y
           [] Abs(x) = Huge /\ y = -x -> 0

\* dotProduct += a[i] * b[i], from 0 on in the order of the components
RECURSIVE DotProduct(_, _)
DotProduct(a, b) ==
    IF Len(a) = 0 THEN 0
    ELSE Add32(DotProduct(SubSeq(a, 1, Len(a) - 1), SubSeq(b, 1, Len(b) - 1)),
               Mul32(a[Len(a)], b[Len(b)]))

\* float32(math.Sqrt(float64(n))) of a norm: of the finite ones the
\* squares are taken
Sqrt(n) ==
    IF n = NaN \/ n = Inf THEN n
    ELSE CHOOSE r \in 0..n : r * r <= n /\ (r + 1) * (r + 1) > n

\* x / y in float32 for y # 0, the quotient of two integers in units of
\* 1 / Scale
Div32(x, y) ==
    IF x = NaN \/ y = NaN THEN NaN
    ELSE IF Abs(y) = Inf THEN (IF Abs(x) = Inf THEN NaN ELSE 0)
    ELSE IF Abs(x) = Inf THEN Sgn(x) * Sgn(y) * Inf
    ELSE CASE Abs(x) < Huge /\ Abs(y) < Huge -> (x * Scale) \div y

CosineSimilarity(a, b) ==
    IF Len(a) # Len(b) THEN 0
    ELSE LET dotProduct == DotProduct(a, b)
             normA == DotProduct(a, a)
             normB == DotProduct(b, b)
         IN IF normA = 0 \/ normB = 0 THEN 0
            ELSE Div32(dotProduct, Mul32(Sqrt(normA), Sqrt(normB)))

\* The orders a set of results can be handed over in.
Orders(S) ==
    {f \in [1..Cardinality(S) -> S] : \A x \in S : \E i \in DOMAIN f : f[i] = x}

\* The results left in the order they were appended in.
SortSlice_Unsorted(S) == Orders(S)

\* sort.Slice(results, Similarity descending): not stable, so any order
\* of the same results with non-increasing Similarity.
SortSlice(S) ==
    {f \in Orders(S) :
        \A i \in 1..(Cardinality(S) - 1) : f[i].Similarity >= f[i + 1].Similarity}

\* if len(results) > limit { results = results[:limit] }
Truncate(results, limit) ==
    IF Len(results) > limit THEN SubSeq(results, 1, limit) ELSE results

\* Search that cuts the rows down to the limit before it sorts them.
Search_TruncateFirst(rows, query, limit) ==
    LET lim == IF limit <= 0 THEN 10 ELSE limit
        results == {[Slug |-> r.Slug,
                     Similarity |-> CosineSimilarity(query,
                                        BytesToVector(r.Vector))] : r \in rows}
        Kept(f) == {Truncate(f, lim)[i] : i \in DOMAIN Truncate(f, lim)}
    IN UNION {SortSlice(Kept(f)) : f \in Orders(results)}

\* VectorSearch.Search on the rows db.Find returned: what it may return.
Search(rows, query, limit) ==
    LET lim == IF limit <= 0 THEN 10 ELSE limit
        results == {[Slug |-> r.Slug,
                     Similarity |-> CosineSimilarity(query,
                                        BytesToVector(r.Vector))] : r \in rows}
    IN {Truncate(f, lim) : f \in SortSlice(results)}

\* Every result appended, whatever its Similarity.
Filter_None(results, threshold) == results

\* for _, r := range results { if r.Similarity >= threshold { append } }
RECURSIVE Filter(_, _)
Filter(results, threshold) ==
    IF results = <<>> THEN <<>>
    ELSE IF Head(results).Similarity >= threshold
    THEN <<Head(results)>> \o Filter(Tail(results), threshold)
    ELSE Filter(Tail(results), threshold)

\* r.Similarity * 1.2 with no upper limit
Boosted_NoClamp(r) ==
    [r EXCEPT !.Similarity = (r.Similarity * 12) \div 10]

\* r.Similarity * 1.2, and 1.0 if that is above 1.0
Boosted(r) ==
    LET s == (r.Similarity * 12) \div 10
    IN [r EXCEPT !.Similarity = IF s > Scale THEN Scale ELSE s]

\* HybridSearch from semanticResults on: boost the keyword matches, sort
\* again, truncate.
Hybrid(semanticResults, keywordSet, limit) ==
    LET boostedResults ==
            {IF semanticResults[i].Slug \in keywordSet
             THEN Boosted(semanticResults[i])
             ELSE semanticResults[i] : i \in DOMAIN semanticResults}
    IN {Truncate(f, limit) : f \in SortSlice(boostedResults)}

\* ------------------------------------------------------------- queries
\* The cache query with a model_name condition added.
FindFresh_MatchName(slug, contentHash, version) ==
    {r \in store : /\ r.Slug = slug
                   /\ r.ContentHash = contentHash
                   /\ r.ModelVersion = version
                   /\ r.ModelName = modelName}

\* s.db.Where("slug = ? AND content_hash = ? AND model_version = ?", ...)
FindFresh(slug, contentHash, version) ==
    {r \in store : /\ r.Slug = slug
                   /\ r.ContentHash = contentHash
                   /\ r.ModelVersion = version}

\* s.db.Where("slug = ?", slug)
FindBySlug(slug) == {r \in store : r.Slug = slug}

\* Embedding{...} as GetEmbedding builds it
NewEmbedding(slug, contentHash, vector) ==
    [Slug |-> slug,
     ContentHash |-> contentHash,
     ModelName |-> modelName,
     ModelVersion |-> modelVersion,
     Dimensions |-> Len(vector),
     Vector |-> VectorToBytes(vector),
     CreatedAt |-> now]

\* The upsert with content_hash missing from DoUpdates.
Upsert_KeepHash(rows, e) ==
    IF \E r \in rows : r.Slug = e.Slug
    THEN {IF r.Slug = e.Slug
          THEN [r EXCEPT !.ModelVersion = e.ModelVersion,
                         !.Vector = e.Vector,
                         !.CreatedAt = e.CreatedAt,
                         !.Dimensions = e.Dimensions]
          ELSE r : r \in rows}
    ELSE rows \cup {e}

\* The upsert with dimensions missing from DoUpdates.
Upsert_KeepDimensions(rows, e) ==
    IF \E r \in rows : r.Slug = e.Slug
    THEN {IF r.Slug = e.Slug
          THEN [r EXCEPT !.ContentHash = e.ContentHash,
                         !.ModelVersion = e.ModelVersion,
                         !.Vector = e.Vector,
                         !.CreatedAt = e.CreatedAt]
          ELSE r : r \in rows}
    ELSE rows \cup {e}

\* The upsert as a plain INSERT into a table without the primary key.
Upsert_Append(rows, e) == rows \cup {e}

\* Create with clause.OnConflict{Columns: slug, DoUpdates: content_hash,
\* model_version, vector, created_at, dimensions}
Upsert(rows, e) ==
    IF \E r \in rows : r.Slug = e.Slug
    THEN {IF r.Slug = e.Slug
          THEN [r EXCEPT !.ContentHash = e.ContentHash,
                         !.ModelVersion = e.ModelVersion,
                         !.Vector = e.Vector,
                         !.CreatedAt = e.CreatedAt,
                         !.Dimensions = e.Dimensions]
          ELSE r : r \in rows}
    ELSE rows \cup {e}

\* ---------------------------------------------------------- construction
\* NewService(db, client, modelName, modelVersion, dimensions): enabled.
EmbInit ==
    /\ store = {}
    /\ enabled = TRUE
    /\ modelName = "m1"
    /\ modelVersion = "v1"
    /\ now = 1
    /\ ePc = [p \in Procs |-> "idle"]
    /\ eOp = [p \in Procs |-> "none"]
    /\ eSlug = [p \in Procs |-> "none"]
    /\ eContent = [p \in Procs |-> "none"]
    /\ eVec = [p \in Procs |-> <<>>]
    /\ eRes = [p \in Procs |-> <<>>]
    /\ eErr = [p \in Procs |-> "nil"]
    /\ eCalls = [p \in Procs |-> 0]
    /\ eAsked = [p \in Procs |-> "none"]
    /\ eFault = [p \in Procs |-> FALSE]
    /\ eOn = [p \in Procs |-> FALSE]
    /\ eWasFresh = [p \in Procs |-> FALSE]
    /\ eItems = [p \in Procs |-> <<>>]
    /\ eBatch = [p \in Procs |-> <<>>]
    /\ eTried = [p \in Procs |-> <<>>]
    /\ eFails = [p \in Procs |-> 0]
    /\ eArgs = [p \in Procs |-> <<>>]
    /\ eDeleted = [p \in Procs |-> FALSE]
    /\ srcVec = [slug \in SearchSlugs |-> <<>>]
    /\ lastContent = [slug \in SearchSlugs |-> "none"]
    /\ lastVer = [slug \in SearchSlugs |-> "none"]
    /\ ops = 0

Init == MgrInit /\ EmbInit /\ TcInit

nonEmbVars == <<mgrVars, procVars, histVars, tcVars>>

\* The record for slug carries the fingerprint of content and the
\* configured model version.
RecordFresh(slug, content) ==
    \E r \in store : /\ r.Slug = slug
                     /\ r.ContentHash = CalculateContentHash(content)
                     /\ r.ModelVersion = modelVersion

\* ------------------------------------------------ Service.GetEmbedding
\* if !s.enabled return nil, nil; contentHash; the cache query; on err ==
\* nil return BytesToVector(cached.Vector), nil
GeStart(p, slug, content) ==
    /\ ePc[p] = "idle"
    /\ ops < MaxOps
    /\ ops' = ops + 1
    /\ eOp' = [eOp EXCEPT ![p] = "getEmbedding"]
    /\ eSlug' = [eSlug EXCEPT ![p] = slug]
    /\ eContent' = [eContent EXCEPT ![p] = content]
    /\ eOn' = [eOn EXCEPT ![p] = enabled]
    /\ eWasFresh' = [eWasFresh EXCEPT ![p] = RecordFresh(slug, content)]
    /\ IF ~enabled
       THEN /\ ePc' = [ePc EXCEPT ![p] = "ge_ret"]
            /\ UNCHANGED <<eRes, eFault>>
       ELSE \E dbOutcome \in {"ok", "fail"} :
            LET cached == FindFresh(slug, CalculateContentHash(content),
                                    modelVersion)
            IN /\ eFault' = [eFault EXCEPT ![p] = (dbOutcome = "fail")]
               /\ IF dbOutcome = "ok" /\ cached # {}
                  THEN /\ eRes' = [eRes EXCEPT ![p] =
                              BytesToVector((CHOOSE r \in cached : TRUE).Vector)]
                       /\ ePc' = [ePc EXCEPT ![p] = "ge_ret"]
                  ELSE /\ ePc' = [ePc EXCEPT ![p] = "ge_embed"]
                       /\ UNCHANGED eRes
    /\ UNCHANGED <<store, enabled, modelName, modelVersion, now, eVec, eErr,
                   eCalls, eAsked, srcVec, lastContent, lastVer, batchVars,
                   nonEmbVars>>

\* GeEmbed that calls the provider a second time when the first call fails.
GeEmbed_Retry(p) ==
    /\ ePc[p] = "ge_embed"
    /\ eCalls' = [eCalls EXCEPT ![p] = @ + 1]
    /\ eAsked' = [eAsked EXCEPT ![p] = eContent[p]]
    /\ \E outcome \in {"ok", "fail"} :
        IF outcome = "fail"
        THEN IF eCalls[p] = 0
             THEN UNCHANGED <<eErr, ePc, eVec>>
             ELSE /\ eErr' = [eErr EXCEPT ![p] = "generate"]
                  /\ ePc' = [ePc EXCEPT ![p] = "ge_ret"]
                  /\ UNCHANGED eVec
        ELSE /\ \E v \in Vectors : eVec' = [eVec EXCEPT ![p] = v]
             /\ ePc' = [ePc EXCEPT ![p] = "ge_upsert"]
             /\ UNCHANGED eErr
    /\ UNCHANGED <<store, enabled, modelName, modelVersion, now, eOp, eSlug,
                   eContent, eRes, eFault, eOn, eWasFresh, srcVec, lastContent,
                   lastVer, ops, batchVars,
                   nonEmbVars>>

\* vector, err := s.client.Embed(content); on error return it wrapped
GeEmbed(p) ==
    /\ ePc[p] = "ge_embed"
    /\ eCalls' = [eCalls EXCEPT ![p] = @ + 1]
    /\ eAsked' = [eAsked EXCEPT ![p] = eContent[p]]
    /\ \E outcome \in {"ok", "fail"} :
        IF outcome = "fail"
        THEN /\ eErr' = [eErr EXCEPT ![p] = "generate"]
             /\ ePc' = [ePc EXCEPT ![p] = "ge_ret"]
             /\ UNCHANGED eVec
        ELSE /\ \E v \in Vectors : eVec' = [eVec EXCEPT ![p] = v]
             /\ ePc' = [ePc EXCEPT ![p] = "ge_upsert"]
             /\ UNCHANGED eErr
    /\ UNCHANGED <<store, enabled, modelName, modelVersion, now, eOp, eSlug,
                   eContent, eRes, eFault, eOn, eWasFresh, srcVec, lastContent,
                   lastVer, ops, batchVars,
                   nonEmbVars>>

\* embedding := Embedding{...}; the upsert; on error return it wrapped,
\* else return vector, nil
GeUpsert(p) ==
    /\ ePc[p] = "ge_upsert"
    /\ ePc' = [ePc EXCEPT ![p] = "ge_ret"]
    /\ \E dbOutcome \in {"ok", "fail"} :
        IF dbOutcome = "fail"
        THEN /\ eErr' = [eErr EXCEPT ![p] = "cache"]
             /\ eFault' = [eFault EXCEPT ![p] = TRUE]
             /\ UNCHANGED <<store, now, eRes, srcVec, lastContent, lastVer>>
        ELSE /\ store' = Upsert(store,
                    NewEmbedding(eSlug[p],
                                 CalculateContentHash(eContent[p]), eVec[p]))
             /\ now' = now + 1
             /\ eRes' = [eRes EXCEPT ![p] = eVec[p]]
             /\ srcVec' = [srcVec EXCEPT ![eSlug[p]] = eVec[p]]
             /\ lastContent' = [lastContent EXCEPT ![eSlug[p]] = eContent[p]]
             /\ lastVer' = [lastVer EXCEPT ![eSlug[p]] = modelVersion]
             /\ UNCHANGED <<eErr, eFault>>
    /\ UNCHANGED <<enabled, modelName, modelVersion, eOp, eSlug, eContent,
                   eVec, eCalls, eAsked, eOn, eWasFresh, ops, batchVars,
                   nonEmbVars>>

\* ----------------------------------------------------- Service.IsStale
\* IsStale comparing the fingerprint only.
IsStale_IgnoreVersion(p, slug, content) ==
    /\ ePc[p] = "idle"
    /\ ops < MaxOps
    /\ ops' = ops + 1
    /\ eOp' = [eOp EXCEPT ![p] = "isStale"]
    /\ eSlug' = [eSlug EXCEPT ![p] = slug]
    /\ eContent' = [eContent EXCEPT ![p] = content]
    /\ ePc' = [ePc EXCEPT ![p] = "is_ret"]
    /\ \E dbOutcome \in {"ok", "fail"} :
        LET contentHash == CalculateContentHash(content)
            found == FindBySlug(slug)
        IN /\ eFault' = [eFault EXCEPT ![p] = (dbOutcome = "fail")]
           /\ eRes' = [eRes EXCEPT ![p] =
                 IF dbOutcome = "fail" \/ found = {}
                 THEN <<TRUE>>
                 ELSE <<(CHOOSE r \in found : TRUE).ContentHash # contentHash>>]
    /\ UNCHANGED <<store, enabled, modelName, modelVersion, now, eVec, eErr,
                   eCalls, eAsked, eOn, eWasFresh, srcVec, lastContent,
                   lastVer, batchVars,
                   nonEmbVars>>

\* Answers in eRes: <<TRUE>> or <<FALSE>>.
IsStale(p, slug, content) ==
    /\ ePc[p] = "idle"
    /\ ops < MaxOps
    /\ ops' = ops + 1
    /\ eOp' = [eOp EXCEPT ![p] = "isStale"]
    /\ eSlug' = [eSlug EXCEPT ![p] = slug]
    /\ eContent' = [eContent EXCEPT ![p] = content]
    /\ ePc' = [ePc EXCEPT ![p] = "is_ret"]
    /\ \E dbOutcome \in {"ok", "fail"} :
        LET contentHash == CalculateContentHash(content)
            found == FindBySlug(slug)
        IN /\ eFault' = [eFault EXCEPT ![p] = (dbOutcome = "fail")]
           /\ eRes' = [eRes EXCEPT ![p] =
                 IF dbOutcome = "fail" \/ found = {}
                 THEN <<TRUE>>
                 ELSE LET embedding == CHOOSE r \in found : TRUE
                      IN IF \/ embedding.ContentHash # contentHash
                            \/ embedding.ModelVersion # modelVersion
                         THEN <<TRUE>>
                         ELSE <<FALSE>>]
    /\ UNCHANGED <<store, enabled, modelName, modelVersion, now, eVec, eErr,
                   eCalls, eAsked, eOn, eWasFresh, srcVec, lastContent, lastVer, batchVars,
                   nonEmbVars>>

\* ---------------------------------------------- Service.DeleteEmbedding
\* DeleteEmbedding without its Where clause.
DeleteEmbedding_All(p, slug) ==
    /\ ePc[p] = "idle"
    /\ ops < MaxOps
    /\ ops' = ops + 1
    /\ eOp' = [eOp EXCEPT ![p] = "deleteEmbedding"]
    /\ eSlug' = [eSlug EXCEPT ![p] = slug]
    /\ ePc' = [ePc EXCEPT ![p] = "de_ret"]
    /\ store' = {}
    /\ srcVec' = [s \in SearchSlugs |-> <<>>]
    /\ lastContent' = [s \in SearchSlugs |-> "none"]
    /\ lastVer' = [s \in SearchSlugs |-> "none"]
    /\ UNCHANGED <<enabled, modelName, modelVersion, now, eContent, eVec,
                   eRes, eErr, eFault, eCalls, eAsked, eOn, eWasFresh,
                   batchVars, nonEmbVars>>

DeleteEmbedding(p, slug) ==
    /\ ePc[p] = "idle"
    /\ ops < MaxOps
    /\ ops' = ops + 1
    /\ eOp' = [eOp EXCEPT ![p] = "deleteEmbedding"]
    /\ eSlug' = [eSlug EXCEPT ![p] = slug]
    /\ ePc' = [ePc EXCEPT ![p] = "de_ret"]
    /\ \E dbOutcome \in {"ok", "fail"} :
        IF dbOutcome = "fail"
        THEN /\ eErr' = [eErr EXCEPT ![p] = "db"]
             /\ eFault' = [eFault EXCEPT ![p] = TRUE]
             /\ UNCHANGED <<store, srcVec, lastContent, lastVer>>
        ELSE /\ store' = {r \in store : r.Slug # slug}
             /\ srcVec' = [srcVec EXCEPT ![slug] = <<>>]
             /\ lastContent' = [lastContent EXCEPT ![slug] = "none"]
             /\ lastVer' = [lastVer EXCEPT ![slug] = "none"]
             /\ UNCHANGED <<eErr, eFault>>
    /\ UNCHANGED <<enabled, modelName, modelVersion, now, eContent, eVec,
                   eRes, eCalls, eAsked, eOn, eWasFresh, batchVars,
                   nonEmbVars>>

\* ---------------------------------------------------- Service.IndexAll
\* if !s.enabled return nil; else range over memories
IndexAll(p, memories) ==
    /\ ePc[p] = "idle"
    /\ ops + Len(memories) <= MaxOps
    /\ ops < MaxOps
    /\ ops' = IF memories = <<>> THEN ops + 1 ELSE ops + Len(memories)
    /\ eOp' = [eOp EXCEPT ![p] = "indexAll"]
    /\ eOn' = [eOn EXCEPT ![p] = enabled]
    /\ eBatch' = [eBatch EXCEPT ![p] = memories]
    /\ eItems' = [eItems EXCEPT ![p] = IF enabled THEN memories ELSE <<>>]
    /\ ePc' = [ePc EXCEPT ![p] = IF enabled THEN "ia_loop" ELSE "ia_ret"]
    /\ UNCHANGED <<store, enabled, modelName, modelVersion, now, eSlug,
                   eContent, eVec, eRes, eErr, eCalls, eAsked, eFault,
                   eWasFresh, eTried, eFails, eArgs, eDeleted, srcVec,
                   lastContent,
                   lastVer, nonEmbVars>>

\* The loop that stops at the first item that failed.
IaContinues_UntilError(p) == eErr[p] = "nil"

\* if err != nil { continue }: the loop goes on whatever GetEmbedding
\* returned.
IaContinues(p) == TRUE

\* for _, mem := range memories { _, err := s.GetEmbedding(mem.Slug,
\* mem.Content); if err != nil { continue } }; return nil.  One step: the
\* previous item's result is dropped and either the loop is over or
\* GetEmbedding is entered for the next item, up to its cache query.
IaLoop(p) ==
    /\ eOp[p] = "indexAll"
    /\ ePc[p] \in {"ia_loop", "ge_ret"}
    /\ eVec' = [eVec EXCEPT ![p] = <<>>]
    /\ eErr' = [eErr EXCEPT ![p] = "nil"]
    /\ eCalls' = [eCalls EXCEPT ![p] = 0]
    /\ eAsked' = [eAsked EXCEPT ![p] = "none"]
    /\ eFails' = [eFails EXCEPT ![p] = IF eErr[p] # "nil" THEN @ + 1 ELSE @]
    /\ IF eItems[p] = <<>> \/ ~IaContinues(p)
       THEN /\ ePc' = [ePc EXCEPT ![p] = "ia_ret"]
            /\ eSlug' = [eSlug EXCEPT ![p] = "none"]
            /\ eContent' = [eContent EXCEPT ![p] = "none"]
            /\ eRes' = [eRes EXCEPT ![p] = <<>>]
            /\ eFault' = [eFault EXCEPT ![p] = FALSE]
            /\ eWasFresh' = [eWasFresh EXCEPT ![p] = FALSE]
            /\ UNCHANGED <<eItems, eTried>>
       ELSE LET mem == Head(eItems[p]) IN
            /\ eItems' = [eItems EXCEPT ![p] = Tail(@)]
            /\ eTried' = [eTried EXCEPT ![p] = Append(@, mem)]
            /\ eSlug' = [eSlug EXCEPT ![p] = mem.Slug]
            /\ eContent' = [eContent EXCEPT ![p] = mem.Content]
            /\ eWasFresh' = [eWasFresh EXCEPT ![p] =
                                RecordFresh(mem.Slug, mem.Content)]
            /\ IF ~enabled
               THEN /\ ePc' = [ePc EXCEPT ![p] = "ge_ret"]
                    /\ eRes' = [eRes EXCEPT ![p] = <<>>]
                    /\ eFault' = [eFault EXCEPT ![p] = FALSE]
               ELSE \E dbOutcome \in {"ok", "fail"} :
                    LET cached == FindFresh(mem.Slug,
                                            CalculateContentHash(mem.Content),
                                            modelVersion)
                    IN /\ eFault' = [eFault EXCEPT ![p] = (dbOutcome = "fail")]
                       /\ IF dbOutcome = "ok" /\ cached # {}
                          THEN /\ eRes' = [eRes EXCEPT ![p] = BytesToVector(
                                      (CHOOSE r \in cached : TRUE).Vector)]
                               /\ ePc' = [ePc EXCEPT ![p] = "ge_ret"]
                          ELSE /\ eRes' = [eRes EXCEPT ![p] = <<>>]
                               /\ ePc' = [ePc EXCEPT ![p] = "ge_embed"]
    /\ UNCHANGED <<store, enabled, modelName, modelVersion, now, eOp, eOn,
                   eBatch, eArgs, eDeleted, srcVec, lastContent, lastVer, ops,
                   nonEmbVars>>

\* ------------------------------------------------- VectorSearch.Store
\* A Save that updates the vector and the dimensions only.
Save_KeepBookkeeping(rows, e) ==
    IF \E r \in rows : r.Slug = e.Slug
    THEN {IF r.Slug = e.Slug
          THEN [r EXCEPT !.Vector = e.Vector, !.Dimensions = e.Dimensions]
          ELSE r : r \in rows}
    ELSE rows \cup {e}

\* db.Save(&emb) on a value whose primary key is set: UPDATE of every
\* column where slug matches, and INSERT when no row matched.
Save(rows, e) ==
    IF \E r \in rows : r.Slug = e.Slug
    THEN {IF r.Slug = e.Slug THEN [e EXCEPT !.CreatedAt = 0] ELSE r : r \in rows}
    ELSE rows \cup {e}

\* emb := Embedding{Slug, ContentHash: "", ModelName: "", ModelVersion: "",
\* Dimensions: len(vector), Vector: VectorToBytes(vector)}; db.Save(&emb)
Store(p, slug, vector) ==
    /\ ePc[p] = "idle"
    /\ ops < MaxOps
    /\ ops' = ops + 1
    /\ eOp' = [eOp EXCEPT ![p] = "store"]
    /\ eSlug' = [eSlug EXCEPT ![p] = slug]
    /\ eVec' = [eVec EXCEPT ![p] = vector]
    /\ ePc' = [ePc EXCEPT ![p] = "st_ret"]
    /\ \E dbOutcome \in {"ok", "fail"} :
        IF dbOutcome = "fail"
        THEN /\ eErr' = [eErr EXCEPT ![p] = "db"]
             /\ eFault' = [eFault EXCEPT ![p] = TRUE]
             /\ UNCHANGED <<store, srcVec, lastContent, lastVer>>
        ELSE /\ store' = Save(store,
                    [Slug |-> slug,
                     ContentHash |-> "",
                     ModelName |-> "",
                     ModelVersion |-> "",
                     Dimensions |-> Len(vector),
                     Vector |-> VectorToBytes(vector),
                     CreatedAt |-> now])
             /\ srcVec' = [srcVec EXCEPT ![slug] = vector]
             /\ lastContent' = [lastContent EXCEPT ![slug] = "none"]
             /\ lastVer' = [lastVer EXCEPT ![slug] = "none"]
             /\ UNCHANGED <<eErr, eFault>>
    /\ UNCHANGED <<enabled, modelName, modelVersion, now, eContent, eRes,
                   eCalls, eAsked, eOn, eWasFresh, batchVars, nonEmbVars>>

\* ------------------------------------------------ VectorSearch.Delete
\* v.db.Where("slug = ?", slug).Delete(&Embedding{})
Delete(p, slug) ==
    /\ ePc[p] = "idle"
    /\ ops < MaxOps
    /\ ops' = ops + 1
    /\ eOp' = [eOp EXCEPT ![p] = "delete"]
    /\ eSlug' = [eSlug EXCEPT ![p] = slug]
    /\ ePc' = [ePc EXCEPT ![p] = "de_ret"]
    /\ \E dbOutcome \in {"ok", "fail"} :
        IF dbOutcome = "fail"
        THEN /\ eErr' = [eErr EXCEPT ![p] = "db"]
             /\ eFault' = [eFault EXCEPT ![p] = TRUE]
             /\ UNCHANGED <<store, srcVec, lastContent, lastVer>>
        ELSE /\ store' = {r \in store : r.Slug # slug}
             /\ srcVec' = [srcVec EXCEPT ![slug] = <<>>]
             /\ lastContent' = [lastContent EXCEPT ![slug] = "none"]
             /\ lastVer' = [lastVer EXCEPT ![slug] = "none"]
             /\ UNCHANGED <<eErr, eFault>>
    /\ UNCHANGED <<enabled, modelName, modelVersion, now, eContent, eVec,
                   eRes, eCalls, eAsked, eOn, eWasFresh, batchVars,
                   nonEmbVars>>

\* --------------------------------------------- Service.CountEmbeddings
\* s.db.Model(&Embedding{}).Count(&count); return count, err
CountEmbeddings(p) ==
    /\ ePc[p] = "idle"
    /\ ops < MaxOps
    /\ ops' = ops + 1
    /\ eOp' = [eOp EXCEPT ![p] = "countEmbeddings"]
    /\ ePc' = [ePc EXCEPT ![p] = "ct_ret"]
    /\ \E dbOutcome \in {"ok", "fail"} :
        IF dbOutcome = "fail"
        THEN /\ eErr' = [eErr EXCEPT ![p] = "db"]
             /\ eFault' = [eFault EXCEPT ![p] = TRUE]
             /\ eRes' = [eRes EXCEPT ![p] = <<0>>]
        ELSE /\ eRes' = [eRes EXCEPT ![p] = <<Cardinality(store)>>]
             /\ UNCHANGED <<eErr, eFault>>
    /\ UNCHANGED <<store, enabled, modelName, modelVersion, now, eSlug,
                   eContent, eVec, eCalls, eAsked, eOn, eWasFresh, batchVars,
                   srcVec, lastContent, lastVer, nonEmbVars>>

\* ------------------------------------------------------------- lookups
\* A lookup from its entry to its return: one query of the table, the
\* error and the answer.  Nothing else is done.
TableLookup(p, o, ret, slug, error, results) ==
    /\ ePc[p] = "idle"
    /\ eOp' = [eOp EXCEPT ![p] = o]
    /\ ePc' = [ePc EXCEPT ![p] = ret]
    /\ eSlug' = [eSlug EXCEPT ![p] = slug]
    /\ eErr' = [eErr EXCEPT ![p] = error]
    /\ eFault' = [eFault EXCEPT ![p] = (error = "db")]
    /\ eRes' = [eRes EXCEPT ![p] = results]
    /\ UNCHANGED <<store, enabled, modelName, modelVersion, now, eContent,
                   eVec, eCalls, eAsked, eOn, eWasFresh, batchVars, srcVec,
                   lastContent, lastVer, ops, nonEmbVars>>

\* GetCachedEmbedding that generates and stores the vector of a slug it
\* does not find.
GetCachedEmbedding_Regenerate(p, slug) ==
    /\ ePc[p] = "idle"
    /\ FindBySlug(slug) = {}
    /\ \E vector \in Vectors :
        /\ store' = Upsert(store, NewEmbedding(slug, "", vector))
        /\ eRes' = [eRes EXCEPT ![p] = <<NewEmbedding(slug, "", vector)>>]
    /\ eOp' = [eOp EXCEPT ![p] = "getCachedEmbedding"]
    /\ ePc' = [ePc EXCEPT ![p] = "gc_ret"]
    /\ eSlug' = [eSlug EXCEPT ![p] = slug]
    /\ eCalls' = [eCalls EXCEPT ![p] = 1]
    /\ UNCHANGED <<enabled, modelName, modelVersion, now, eContent, eVec,
                   eErr, eFault, eAsked, eOn, eWasFresh, batchVars, srcVec,
                   lastContent, lastVer, ops, nonEmbVars>>

\* Service.GetCachedEmbedding(slug):
\* err := s.db.Where("slug = ?", slug).First(&embedding).Error; on err
\* return nil, err, else return &embedding, nil
GetCachedEmbedding(p, slug) ==
    \/ TableLookup(p, "getCachedEmbedding", "gc_ret", slug, "db", <<>>)
    \/ IF FindBySlug(slug) = {}
       THEN TableLookup(p, "getCachedEmbedding", "gc_ret", slug, "notfound", <<>>)
       ELSE TableLookup(p, "getCachedEmbedding", "gc_ret", slug, "nil",
                   <<CHOOSE r \in FindBySlug(slug) : TRUE>>)

\* Service.GetContentHash(slug): the same query; on err return "", err,
\* else return embedding.ContentHash, nil
GetContentHash(p, slug) ==
    \/ TableLookup(p, "getContentHash", "gh_ret", slug, "db", <<"">>)
    \/ IF FindBySlug(slug) = {}
       THEN TableLookup(p, "getContentHash", "gh_ret", slug, "notfound", <<"">>)
       ELSE TableLookup(p, "getContentHash", "gh_ret", slug, "nil",
                   <<(CHOOSE r \in FindBySlug(slug) : TRUE).ContentHash>>)

\* VectorSearch.Count(): v.db.Model(&Embedding{}).Count(&count);
\* return count, err
Count(p) ==
    \/ TableLookup(p, "count", "vc_ret", "none", "db", <<0>>)
    \/ TableLookup(p, "count", "vc_ret", "none", "nil", <<Cardinality(store)>>)

\* ------------------------------------------------------------ searches
\* A search call from its entry to its return: the query vector, the
\* arguments, the provider calls made, the error and the results.  A search
\* writes nothing.
SearchCall(p, o, ret, query, args, embeds, error, results) ==
    /\ ePc[p] = "idle"
    /\ eOp' = [eOp EXCEPT ![p] = o]
    /\ ePc' = [ePc EXCEPT ![p] = ret]
    /\ eOn' = [eOn EXCEPT ![p] = enabled]
    /\ eVec' = [eVec EXCEPT ![p] = query]
    /\ eArgs' = [eArgs EXCEPT ![p] = args]
    /\ eCalls' = [eCalls EXCEPT ![p] = embeds]
    /\ eErr' = [eErr EXCEPT ![p] = error]
    /\ eFault' = [eFault EXCEPT ![p] = (error = "db")]
    /\ eRes' = [eRes EXCEPT ![p] = results]
    /\ UNCHANGED <<store, enabled, modelName, modelVersion, now, eSlug,
                   eContent, eAsked, eWasFresh, eItems, eBatch, eTried,
                   eFails, eDeleted, srcVec, lastContent, lastVer, ops,
                   nonEmbVars>>

SearchArgs(limit, threshold, keywords) ==
    [limit |-> limit, threshold |-> threshold, keywords |-> keywords]

\* VectorSearch.Search(query, limit): db.Find fails, or the ranking.
VectorSearch(p, query, limit) ==
    LET args == SearchArgs(limit, 0, {}) IN
    /\ ePc[p] = "idle"
    /\ \/ SearchCall(p, "search", "vs_ret", query, args, 0, "db", <<>>)
       \/ \E results \in Search(store, query, limit) :
             SearchCall(p, "search", "vs_ret", query, args, 0, "nil", results)

\* results, err := v.Search(query, limit*2); filter by threshold;
\* filtered[:limit] when len(filtered) > limit, which panics when limit < 0
ThresholdCall(p, o, ret, query, args, embeds) ==
    /\ ePc[p] = "idle"
    /\ \/ SearchCall(p, o, ret, query, args, embeds, "db", <<>>)
       \/ \E results \in Search(store, query, args.limit * 2) :
             LET filtered == Filter(results, args.threshold) IN
             IF args.limit < 0
             THEN SearchCall(p, o, ret, query, args, embeds, "panic", <<>>)
             ELSE SearchCall(p, o, ret, query, args, embeds, "nil",
                             Truncate(filtered, args.limit))

\* VectorSearch.SearchWithThreshold(query, threshold, limit)
VectorSearchWithThreshold(p, query, threshold, limit) ==
    ThresholdCall(p, "searchWithThreshold", "vt_ret", query,
                  SearchArgs(limit, threshold, {}), 0)

\* A SemanticSearch.Search that takes the query vector from the table when
\* the table has a row, and asks the provider only when it has none.
SemanticSearch_Cached(p, limit) ==
    LET args == SearchArgs(limit, 0, {}) IN
    /\ ePc[p] = "idle"
    /\ enabled
    /\ IF store = {}
       THEN \E queryVector \in Vectors :
               SearchCall(p, "semanticSearch", "ss_ret", queryVector, args, 1,
                          "nil", <<>>)
       ELSE \E r \in store :
            \E results \in Search(store, BytesToVector(r.Vector), limit) :
               SearchCall(p, "semanticSearch", "ss_ret",
                          BytesToVector(r.Vector), args, 0, "nil", results)

\* SemanticSearch.Search(query, limit): nil, nil when the service is not
\* enabled; else client.Embed(query), its error returned, then
\* VectorSearch.Search
SemanticSearch(p, limit) ==
    LET args == SearchArgs(limit, 0, {}) IN
    /\ ePc[p] = "idle"
    /\ IF ~enabled
       THEN SearchCall(p, "semanticSearch", "ss_ret", <<>>, args, 0, "nil", <<>>)
       ELSE \/ SearchCall(p, "semanticSearch", "ss_ret", <<>>, args, 1,
                          "provider", <<>>)
            \/ \E queryVector \in Vectors :
               \/ SearchCall(p, "semanticSearch", "ss_ret", queryVector, args, 1,
                             "db", <<>>)
               \/ \E results \in Search(store, queryVector, limit) :
                     SearchCall(p, "semanticSearch", "ss_ret", queryVector, args,
                                1, "nil", results)

\* SemanticSearch.SearchWithThreshold(query, threshold, limit)
SemanticSearchWithThreshold(p, threshold, limit) ==
    LET args == SearchArgs(limit, threshold, {}) IN
    /\ ePc[p] = "idle"
    /\ IF ~enabled
       THEN SearchCall(p, "semanticSearchWithThreshold", "sw_ret", <<>>, args, 0,
                       "nil", <<>>)
       ELSE \/ SearchCall(p, "semanticSearchWithThreshold", "sw_ret", <<>>, args,
                          1, "provider", <<>>)
            \/ \E queryVector \in Vectors :
                 ThresholdCall(p, "semanticSearchWithThreshold", "sw_ret",
                               queryVector, args, 1)

\* boostedResults[:limit] when len(boostedResults) > limit, which panics
\* when limit < 0
HybridCall(p, query, args, embeds, semanticResults) ==
    IF args.limit < 0
    THEN SearchCall(p, "hybridSearch", "hy_ret", query, args, embeds, "panic",
                    <<>>)
    ELSE \E results \in Hybrid(semanticResults, args.keywords, args.limit) :
            SearchCall(p, "hybridSearch", "hy_ret", query, args, embeds, "nil",
                       results)

\* SemanticSearch.HybridSearch(query, keywordMatches, limit):
\* semanticResults, err := s.Search(query, limit*2), then the boost
HybridSearch(p, keywordMatches, limit) ==
    LET args == SearchArgs(limit, 0, keywordMatches) IN
    /\ ePc[p] = "idle"
    /\ IF ~enabled
       THEN HybridCall(p, <<>>, args, 0, <<>>)
       ELSE \/ SearchCall(p, "hybridSearch", "hy_ret", <<>>, args, 1, "provider",
                          <<>>)
            \/ \E queryVector \in Vectors :
               \/ SearchCall(p, "hybridSearch", "hy_ret", queryVector, args, 1,
                             "db", <<>>)
               \/ \E semanticResults \in Search(store, queryVector, limit * 2) :
                     HybridCall(p, queryVector, args, 1, semanticResults)

\* ------------------------------------------- the pure functions, called
\* CosineSimilarity(a, b)
Cosine(p, a, b) ==
    SearchCall(p, "cosineSimilarity", "cs_ret", a, [b |-> b], 0, "nil",
               <<CosineSimilarity(a, b)>>)

\* VectorToBytes(vector)
Encode(p, vector) ==
    SearchCall(p, "vectorToBytes", "vb_ret", vector, <<>>, 0, "nil",
               VectorToBytes(vector))

\* BytesToVector(data)
Decode(p, data) ==
    SearchCall(p, "bytesToVector", "bv_ret", data, <<>>, 0, "nil",
               BytesToVector(data))

\* The call returns to its caller: its frame is gone.
\* The DeleteEmbedding that p returns from has removed the row of the slug
\* while the GetEmbedding of q for that slug was between its lookup and
\* its upsert.
DeletedUnder(p, q) ==
    /\ ePc[p] = "de_ret"
    /\ eOp[p] = "deleteEmbedding"
    /\ eErr[p] = "nil"
    /\ ePc[q] \in {"ge_embed", "ge_upsert"}
    /\ eSlug[q] = eSlug[p]

EmbReturn(p) ==
    /\ ePc[p] \in {"ge_ret", "is_ret", "de_ret", "ia_ret", "st_ret", "ct_ret",
                  "vs_ret", "vt_ret", "ss_ret", "sw_ret", "hy_ret", "cs_ret",
                  "vb_ret", "bv_ret", "gc_ret", "gh_ret", "vc_ret"}
    /\ ~(ePc[p] = "ge_ret" /\ eOp[p] = "indexAll")
    /\ eItems' = [eItems EXCEPT ![p] = <<>>]
    /\ eBatch' = [eBatch EXCEPT ![p] = <<>>]
    /\ eTried' = [eTried EXCEPT ![p] = <<>>]
    /\ eFails' = [eFails EXCEPT ![p] = 0]
    /\ eArgs' = [eArgs EXCEPT ![p] = <<>>]
    /\ eDeleted' = [q \in Procs |->
          IF q = p THEN FALSE ELSE eDeleted[q] \/ DeletedUnder(p, q)]
    /\ ePc' = [ePc EXCEPT ![p] = "idle"]
    /\ eOp' = [eOp EXCEPT ![p] = "none"]
    /\ eSlug' = [eSlug EXCEPT ![p] = "none"]
    /\ eContent' = [eContent EXCEPT ![p] = "none"]
    /\ eVec' = [eVec EXCEPT ![p] = <<>>]
    /\ eRes' = [eRes EXCEPT ![p] = <<>>]
    /\ eErr' = [eErr EXCEPT ![p] = "nil"]
    /\ eCalls' = [eCalls EXCEPT ![p] = 0]
    /\ eAsked' = [eAsked EXCEPT ![p] = "none"]
    /\ eFault' = [eFault EXCEPT ![p] = FALSE]
    /\ eOn' = [eOn EXCEPT ![p] = FALSE]
    /\ eWasFresh' = [eWasFresh EXCEPT ![p] = FALSE]
    /\ UNCHANGED <<store, enabled, modelName, modelVersion, now, srcVec,
                   lastContent, lastVer, ops, nonEmbVars>>

\* ---------------------------------------------------- Service.SetEnabled
SetEnabled(b) ==
    /\ enabled # b
    /\ ops < MaxOps
    /\ ops' = ops + 1
    /\ enabled' = b
    /\ UNCHANGED <<store, modelName, modelVersion, now, ePc, eOp, eSlug,
                   eContent, eVec, eRes, eErr, eCalls, eAsked, eFault,
                   eOn, eWasFresh, srcVec, lastContent, lastVer, batchVars,
                   nonEmbVars>>

\* ------------------------------------------------------------ NewService
\* The process is restarted with another model configuration over the
\* same database: no call is in flight.
NewService(name, version) ==
    /\ \A p \in Procs : ePc[p] = "idle"
    /\ <<name, version>> # <<modelName, modelVersion>>
    /\ ops < MaxOps
    /\ ops' = ops + 1
    /\ modelName' = name
    /\ modelVersion' = version
    /\ enabled' = TRUE
    /\ UNCHANGED <<store, now, ePc, eOp, eSlug, eContent, eVec, eRes, eErr,
                   eCalls, eAsked, eFault, eOn, eWasFresh, srcVec, lastContent,
                   lastVer, batchVars,
                   nonEmbVars>>

EmbNext ==
    \/ \E p \in Procs, slug \in Slugs, content \in Contents :
          GeStart(p, slug, content)
    \/ \E p \in Procs : GeEmbed(p)
    \/ \E p \in Procs : GeUpsert(p)
    \/ \E p \in Procs, slug \in Slugs, content \in Contents :
          IsStale(p, slug, content)
    \/ \E p \in Procs, slug \in Slugs : DeleteEmbedding(p, slug)
    \/ \E p \in Procs : EmbReturn(p)
    \/ \E b \in BOOLEAN : SetEnabled(b)
    \/ \E name \in Names, version \in Versions : NewService(name, version)

EmbSpec == Init /\ [][EmbNext]_vars

\* Every operation that writes to the table, by concurrent callers.
WriteNext ==
    \/ \E p \in Procs, slug \in Slugs, content \in Contents :
          GeStart(p, slug, content)
    \/ \E p \in Procs : GeEmbed(p)
    \/ \E p \in Procs : GeUpsert(p)
    \/ \E p \in Procs, memories \in Batches : IndexAll(p, memories)
    \/ \E p \in Procs : IaLoop(p)
    \/ \E p \in Procs, slug \in Slugs, vector \in StoredVectors :
          Store(p, slug, vector)
    \/ \E p \in Procs, slug \in Slugs : DeleteEmbedding(p, slug)
    \/ \E p \in Procs, slug \in Slugs : Delete(p, slug)
    \/ \E p \in Procs : CountEmbeddings(p)
    \/ \E p \in Procs : EmbReturn(p)

WriteSpec == Init /\ [][WriteNext]_vars

\* One caller of VectorSearch and of HybridSearch over the same table:
\* vectors stored and ranked.
SearchNext ==
    \/ \E slug \in SearchSlugs, vector \in Points :
          Store(Searcher, slug, vector)
    \/ \E query \in Points, limit \in Limits :
          VectorSearch(Searcher, query, limit)
    \/ \E query \in Points, threshold \in Thresholds, limit \in Limits :
          VectorSearchWithThreshold(Searcher, query, threshold, limit)
    \/ \E keywordMatches \in KeywordSets, limit \in Limits :
          HybridSearch(Searcher, keywordMatches, limit)
    \/ EmbReturn(Searcher)

SearchSpec == Init /\ [][SearchNext]_vars

\* One caller of Service and SemanticSearch: the cache, reconfigured or
\* not, filled by GetEmbedding and IndexAll, and searched by text.
SemanticNext ==
    \/ \E slug \in Slugs, content \in Contents :
          GeStart(Searcher, slug, content)
    \/ GeEmbed(Searcher)
    \/ GeUpsert(Searcher)
    \/ \E memories \in Batches : IndexAll(Searcher, memories)
    \/ IaLoop(Searcher)
    \/ EmbReturn(Searcher)
    \/ \E b \in BOOLEAN : SetEnabled(b)
    \/ \E name \in Names, version \in Versions : NewService(name, version)
    \/ \E limit \in Limits : SemanticSearch(Searcher, limit)
    \/ \E threshold \in Thresholds, limit \in Limits :
          SemanticSearchWithThreshold(Searcher, threshold, limit)
    \/ \E keywordMatches \in KeywordSets, limit \in Limits :
          HybridSearch(Searcher, keywordMatches, limit)

SemanticSpec == Init /\ [][SemanticNext]_vars

\* Every operation on the table, the lookups among the writers.
LookupNext ==
    \/ \E slug \in Slugs, content \in Contents :
          GeStart(Searcher, slug, content)
    \/ GeEmbed(Searcher)
    \/ GeUpsert(Searcher)
    \/ \E memories \in Batches : IndexAll(Searcher, memories)
    \/ IaLoop(Searcher)
    \/ \E slug \in Slugs, vector \in StoredVectors :
          Store(Searcher, slug, vector)
    \/ \E slug \in Slugs : DeleteEmbedding(Searcher, slug)
    \/ \E slug \in Slugs : Delete(Searcher, slug)
    \/ \E slug \in Slugs : GetCachedEmbedding(Searcher, slug)
    \/ \E slug \in Slugs, content \in Contents :
          IsStale(Searcher, slug, content)
    \/ \E slug \in Slugs : GetContentHash(Searcher, slug)
    \/ CountEmbeddings(Searcher)
    \/ Count(Searcher)
    \/ \E query \in Vectors, limit \in Limits :
          VectorSearch(Searcher, query, limit)
    \/ EmbReturn(Searcher)

LookupSpec == Init /\ [][LookupNext]_vars

\* One caller of the pure functions.
PureNext ==
    \/ \E a \in CosInputs, b \in CosInputs : Cosine(Searcher, a, b)
    \/ \E vector \in CodecVectors : Encode(Searcher, vector)
    \/ \E data \in Buffers : Decode(Searcher, data)
    \/ EmbReturn(Searcher)

PureSpec == Init /\ [][PureNext]_vars

\* One caller with the two contexts.
TcNext ==
    \/ TcNewStart(Searcher)
    \/ GetRLock(Searcher)
    \/ GetRUnlock(Searcher)
    \/ GetCheck(Searcher)
    \/ GetUnlock(Searcher)
    \/ NewToolContextWithManager(Searcher)
    \/ NewToolContextV2
    \/ TcCloseStart(Searcher)
    \/ TcCloseReturn(Searcher)
    \/ TcCloseBare
    \/ TcReopenStart(Searcher)
    \/ TcReopenGoesOn(Searcher)
    \/ TcReopenReturn(Searcher)
    \/ TcReopenBare

TcSpec == Init /\ [][TcNext]_vars

\* One caller that asks for the connections of every spelling of the
\* repositories and closes them.
AliasNext ==
    \/ \E path \in Keys : StartGet(Searcher, path)
    \/ GetRUnlock(Searcher)
    \/ GetCheck(Searcher)
    \/ GetUnlock(Searcher)
    \/ GetReturn(Searcher)
    \/ \E path \in Keys : StartClose(Searcher, path)
    \/ CloseUnlock(Searcher)

AliasSpec == Init /\ [][AliasNext]_vars

\* ------------------------------------------------------ specification
Next ==
    \/ \E p \in Procs, path \in Paths : StartGet(p, path)
    \/ \E p \in Procs : GetRLock(p)
    \/ \E p \in Procs : GetRUnlock(p)
    \/ \E p \in Procs : GetCheck(p)
    \/ \E p \in Procs : GetUnlock(p)
    \/ \E p \in Procs : GetReturn(p)
    \/ \E p \in Procs, path \in Paths : StartClose(p, path)
    \/ \E p \in Procs : CloseLock(p)
    \/ \E p \in Procs : CloseUnlock(p)
    \/ \E p \in Procs, path \in Paths : StartReopen(p, path)
    \/ \E p \in Procs, path \in Paths : StartSync(p, path)
    \/ \E p \in Procs : ExternalSync(p)
    \/ \E p \in Procs : StartCloseAll(p)
    \/ \E p \in Procs : CloseAllUnlock(p)

Spec == Init /\ [][Next]_vars

\* The calls of the manager on one repository by concurrent callers, each
\* caller scheduled again and again: a step it can take for good, it takes.
LiveNext ==
    \/ \E p \in Procs : StartGet(p, "repoA")
    \/ \E p \in Procs : GetRLock(p)
    \/ \E p \in Procs : GetRUnlock(p)
    \/ \E p \in Procs : GetCheck(p)
    \/ \E p \in Procs : GetUnlock(p)
    \/ \E p \in Procs : GetReturn(p)
    \/ \E p \in Procs : StartClose(p, "repoA")
    \/ \E p \in Procs : CloseUnlock(p)
    \/ \E p \in Procs : StartReopen(p, "repoA")
    \/ \E p \in Procs : StartCloseAll(p)
    \/ \E p \in Procs : CloseAllUnlock(p)

\* What a caller inside a call does next.
Step(p) ==
    \/ GetRLock(p)
    \/ GetRUnlock(p)
    \/ GetCheck(p)
    \/ GetUnlock(p)
    \/ GetReturn(p)
    \/ CloseUnlock(p)
    \/ CloseAllUnlock(p)

LiveSpec ==
    Init /\ [][LiveNext]_vars /\ \A p \in Procs : WF_vars(Step(p))

\* ================================================================ claims
\* Connections OpenUserDB has handed out for path (open or closed since).
OpenedHandles(path) ==
    {h \in Handles : hPath[h] = path /\ hState[h] \in {"open", "closed"}}

\* Connections handed out for path that are open.
LiveHandles(path) ==
    {h \in Handles : hPath[h] = path /\ hState[h] = "open"}

\* C1: as long as no close has acted on a path, OpenUserDB has handed out
\* at most one handle for it, and every GetUserDB(path) that is returning
\* without error returns that handle, which is the registered one.
C1_SingleOpen ==
    \A path \in Paths :
        ~everClosed[path] =>
            /\ Cardinality(OpenedHandles(path)) <= 1
            /\ \A p \in Procs :
                (pc[p] = "g_ret" /\ arg[p] = path /\ err[p] = "nil") =>
                    /\ OpenedHandles(path) = {db[p]}
                    /\ userDBs[path] = db[p]

\* Both callers are returning from GetUserDB on the same never-closed path.
C1_Witness ==
    \E path \in Paths :
        /\ ~everClosed[path]
        /\ \A p \in Procs :
            /\ pc[p] = "g_ret"
            /\ op[p] = "get"
            /\ arg[p] = path
            /\ err[p] = "nil"
            /\ db[p] # NoDB

\* C2: in every reachable state each path has at most one open handle,
\* and an open handle is the one in the registry.
C2_OneLiveHandle ==
    \A path \in Paths :
        /\ Cardinality(LiveHandles(path)) <= 1
        /\ \A h \in LiveHandles(path) : userDBs[path] = h

\* C3: while a caller is between its CloseUserDB and its ReopenUserDB, the
\* path has no registry entry and no open handle.
C3_ExclusiveWindow ==
    \A p \in Procs :
        pc[p] = "s_window" =>
            /\ userDBs[arg[p]] = NoDB
            /\ LiveHandles(arg[p]) = {}

\* C4: a ReopenUserDB that is returning a handle without error returns one
\* that was opened after the call began (so never the one registered
\* before it) on the file as it was then or later; the handle its
\* CloseUserDB found registered has been closed; and while GetUserDB still
\* holds the lock under which it obtained the handle, that handle is the
\* registered one.
C4_ReopenFresh ==
    \A p \in Procs :
        ( /\ frame[p] = "reopen"
          /\ pc[p] \in {"g_runlock", "g_unlock", "g_ret"}
          /\ err[p] = "nil"
          /\ db[p] # NoDB ) =>
            /\ db[p] >= old0[p]
            /\ hGen[db[p]] >= gen0[p]
            /\ db[p] # reg0[p][arg[p]]
            /\ reg0[p][arg[p]] # NoDB => hState[reg0[p][arg[p]]] = "closed"
            /\ pc[p] \in {"g_runlock", "g_unlock"} => userDBs[arg[p]] = db[p]

\* After an out-of-band rewrite the reopen returns a handle on the new file
\* while a handle opened on the old file is closed.
C4_Witness ==
    \E p \in Procs :
        /\ op[p] = "sync"
        /\ frame[p] = "reopen"
        /\ pc[p] = "g_ret"
        /\ err[p] = "nil"
        /\ db[p] # NoDB
        /\ hGen[db[p]] = fileGen[arg[p]]
        /\ \E h \in Handles :
            /\ hPath[h] = arg[p]
            /\ hState[h] = "closed"
            /\ hGen[h] < hGen[db[p]]

\* C5: when CloseUserDB(path) has run its body without error, the handle
\* that was registered for path is closed and the registry differs from
\* the one it found only in having no entry for path; when nothing was
\* registered for path it reports no error and the registry is as found.
C5_CloseFrame ==
    \A p \in Procs :
        pc[p] = "c_unlock" =>
            LET path == arg[p]
                h == reg0[p][path]
            IN /\ h = NoDB => (err[p] = "nil" /\ userDBs = reg0[p])
               /\ (h # NoDB /\ err[p] = "nil") =>
                    /\ hState[h] = "closed"
                    /\ userDBs = [reg0[p] EXCEPT ![path] = NoDB]

\* A close of a registered path while another path is registered too.
C5_Witness ==
    \E p \in Procs :
        /\ pc[p] = "c_unlock"
        /\ err[p] = "nil"
        /\ reg0[p][arg[p]] # NoDB
        /\ \E other \in Paths \ {arg[p]} :
            reg0[p][other] # NoDB /\ userDBs[other] = reg0[p][other]

\* C6: when sqlDB.Close() fails in CloseUserDB(path), the error is
\* returned and the registry entry for path is removed nonetheless.
C6_ReleasedOnCloseError ==
    \A p \in Procs :
        (pc[p] = "c_unlock" /\ err[p] = "closeErr") =>
            userDBs[arg[p]] = NoDB

\* C7: when Manager.Close has emptied the registry, every handle that was
\* registered when it took the lock has been closed.
C7_CloseAllClosesAll ==
    \A p \in Procs :
        (pc[p] = "a_unlock" /\ \A path \in Paths : userDBs[path] = NoDB) =>
            \A path \in Paths :
                reg0[p][path] # NoDB => hState[reg0[p][path]] = "closed"

\* C8: a GetEmbedding on an enabled service that finds the record fresh
\* (its cache query not failing) returns the vector the record was stored
\* from, without error, without calling the provider and without changing
\* the table.
C8_FreshHit ==
    [][\A p \in Procs :
        /\ ( /\ ePc[p] = "idle"
             /\ eOp'[p] = "getEmbedding"
             /\ eOn'[p]
             /\ eWasFresh'[p]
             /\ ~eFault'[p] ) =>
                /\ ePc'[p] = "ge_ret"
                /\ eRes'[p] = srcVec[eSlug'[p]]
                /\ eErr'[p] = "nil"
                /\ eCalls'[p] = 0
                /\ store' = store
        /\ (ePc[p] = "ge_ret" /\ ePc'[p] # "ge_ret") =>
                /\ ePc'[p] = "idle"
                /\ store' = store
                /\ eCalls'[p] = 0
      ]_vars

\* A cache hit is returning a stored vector.
C8_Witness ==
    \E p \in Procs :
        /\ ePc[p] = "ge_ret"
        /\ eOn[p]
        /\ eWasFresh[p]
        /\ ~eFault[p]
        /\ eRes[p] = <<-3, 4>>
        /\ eCalls[p] = 0

\* Rows of the table for slug.
RowsOf(rows, slug) == {r \in rows : r.Slug = slug}

\* C9: a GetEmbedding on an enabled service whose record is missing or not
\* fresh goes to the provider; when the provider and the upsert succeed it
\* has called the provider once, with content, the table then holds one
\* row for slug with the fingerprint of content, the configured version and
\* the generated vector, the rows of other slugs are as before, the record
\* is fresh for content, and the generated vector is returned.
C9_Regenerate ==
    [][\A p \in Procs :
        /\ ( /\ ePc[p] = "idle"
             /\ eOp'[p] = "getEmbedding"
             /\ eOn'[p]
             /\ ~eWasFresh'[p] ) => ePc'[p] = "ge_embed"
        /\ (ePc[p] = "ge_embed" /\ ePc'[p] # "ge_embed") =>
                /\ eCalls[p] = 0
                /\ eCalls'[p] = 1
                /\ eAsked'[p] = eContent[p]
        /\ (ePc[p] = "ge_upsert" /\ ePc'[p] = "ge_ret" /\ eErr'[p] = "nil") =>
                /\ eCalls'[p] = 1
                /\ eRes'[p] = eVec[p]
                /\ eVec[p] \in Vectors
                /\ \E r \in store' :
                    /\ RowsOf(store', eSlug[p]) = {r}
                    /\ r.ContentHash = CalculateContentHash(eContent[p])
                    /\ r.ModelVersion = modelVersion
                    /\ BytesToVector(r.Vector) = eVec[p]
                /\ \A slug \in Slugs \ {eSlug[p]} :
                    RowsOf(store', slug) = RowsOf(store, slug)
                /\ RecordFresh(eSlug[p], eContent[p])'
      ]_vars

\* A regeneration over an existing record has just succeeded: two upserts,
\* one row.
C9_Witness ==
    \E p \in Procs :
        /\ ePc[p] = "ge_ret"
        /\ eOn[p]
        /\ ~eWasFresh[p]
        /\ eErr[p] = "nil"
        /\ eCalls[p] = 1
        /\ eRes[p] \in Vectors
        /\ now = 3
        /\ Cardinality(store) = 1

\* What IsStale should answer, from how the record came to be: nothing was
\* generated for slug, or it was generated from other content, or under
\* another model version than the configured one.
StaleTruth(slug, content) ==
    \/ lastContent[slug] = "none"
    \/ lastContent[slug] # content
    \/ lastVer[slug] # modelVersion

\* C10: IsStale(slug, content), its query not failing, answers true iff
\* there is no row for slug or the row's fingerprint differs from the
\* fingerprint of content or its model version differs from the configured
\* one; that is, iff no embedding was generated for slug, or the last one
\* was generated from other content or under another model version.
C10_IsStale ==
    [][\A p \in Procs :
        ( /\ ePc[p] = "idle"
          /\ ePc'[p] = "is_ret"
          /\ ~eFault'[p] ) =>
            /\ eRes'[p] = <<StaleTruth(eSlug'[p], eContent'[p])>>
            /\ eRes'[p] =
                 << \/ RowsOf(store, eSlug'[p]) = {}
                    \/ \E r \in RowsOf(store, eSlug'[p]) :
                        \/ r.ContentHash # CalculateContentHash(eContent'[p])
                        \/ r.ModelVersion # modelVersion >>
      ]_vars

\* IsStale answers true for the very content the record was generated
\* from, because the configured model version has changed since.
C10_Witness ==
    \E p \in Procs :
        /\ ePc[p] = "is_ret"
        /\ ~eFault[p]
        /\ eRes[p] = <<TRUE>>
        /\ lastContent[eSlug[p]] = eContent[p]
        /\ lastVer[eSlug[p]] = "v1"
        /\ modelVersion = "v2"

\* C14: when client.Embed fails in GetEmbedding, the failure is returned
\* with no vector, the provider has been called once and not again, and no
\* step of the invocation writes to the table: the rows are as they were.
C14_ProviderFailure ==
    [][\A p \in Procs :
        /\ (ePc[p] = "idle" /\ eOp'[p] = "getEmbedding") => store' = store
        /\ ePc[p] = "ge_embed" => eCalls[p] = 0
        /\ (ePc[p] = "ge_embed" /\ ePc'[p] = "ge_ret") =>
                /\ eErr'[p] = "generate"
                /\ eRes'[p] = <<>>
                /\ eCalls'[p] = 1
                /\ store' = store
        /\ (ePc[p] = "ge_ret" /\ eErr[p] = "generate" /\ ePc'[p] # "ge_ret") =>
                /\ ePc'[p] = "idle"
                /\ store' = store
      ]_vars

\* A regeneration over an existing, stale record is returning the
\* provider's failure.
C14_Witness ==
    \E p \in Procs :
        /\ ePc[p] = "ge_ret"
        /\ eErr[p] = "generate"
        /\ eCalls[p] = 1
        /\ ~eWasFresh[p]
        /\ \E r \in RowsOf(store, eSlug[p]) :
            r.ContentHash # CalculateContentHash(eContent[p])

\* C15: an invocation whose store access failed reports a failure: IsStale
\* does not return with a nil error, and GetEmbedding neither goes on to the
\* provider nor returns with a nil error.
C15_StorageFailureReported ==
    \A p \in Procs :
        eFault[p] =>
            /\ ePc[p] # "ge_embed"
            /\ ePc[p] \in {"is_ret", "ge_ret"} => eErr[p] # "nil"

\* C11: whatever GetEmbedding, IndexAll, Store, DeleteEmbedding and Delete
\* calls have run, in whatever interleaving, the table holds at most one row
\* per slug, and a CountEmbeddings whose query does not fail answers the
\* number of slugs that have a row.
C11_OneRecordPerSlug ==
    [][/\ \A slug \in Slugs : Cardinality(RowsOf(store', slug)) <= 1
       /\ \A p \in Procs :
            (ePc[p] = "idle" /\ ePc'[p] = "ct_ret" /\ ~eFault'[p]) =>
                eRes'[p] =
                    <<Cardinality({slug \in Slugs : RowsOf(store, slug) # {}})>>
      ]_vars

\* A second generation has overwritten the record of the first and the
\* count is one.
C11_Witness ==
    \E p \in Procs :
        /\ ePc[p] = "ct_ret"
        /\ ~eFault[p]
        /\ eRes[p] = <<1>>
        /\ \E r \in store : r.CreatedAt = 2

\* C16: an IndexAll on an enabled service returns only when it has called
\* GetEmbedding on every memory, in order, whatever those calls returned;
\* after a call that failed the loop goes on with the next memory; a memory
\* whose generation succeeds has a fresh record at that moment; and IndexAll
\* returns nil.
C16_IndexAllGoesOn ==
    [][\A p \in Procs :
        /\ (eOp'[p] = "indexAll" /\ ePc[p] # "ia_ret" /\ ePc'[p] = "ia_ret") =>
                /\ eErr'[p] = "nil"
                /\ eOn'[p] => eTried'[p] = eBatch'[p]
        /\ ( /\ eOp[p] = "indexAll"
             /\ ePc[p] = "ge_ret"
             /\ ePc'[p] # "ge_ret"
             /\ eErr[p] # "nil"
             /\ eItems[p] # <<>> ) =>
                eTried'[p] = Append(eTried[p], Head(eItems[p]))
        /\ ( /\ eOp[p] = "indexAll"
             /\ ePc[p] = "ge_upsert"
             /\ ePc'[p] = "ge_ret"
             /\ eErr'[p] = "nil" ) =>
                RecordFresh(eSlug[p], eContent[p])'
      ]_vars

\* IndexAll is returning from a batch of two whose first memory failed and
\* whose second has its fresh record.
C16_Witness ==
    \E p \in Procs :
        /\ ePc[p] = "ia_ret"
        /\ eFails[p] = 1
        /\ Len(eBatch[p]) = 2
        /\ eTried[p] = eBatch[p]
        /\ RecordFresh(eBatch[p][2].Slug, eBatch[p][2].Content)
        /\ RowsOf(store, eBatch[p][1].Slug) = {}

\* C17: a DeleteEmbedding(slug) or Delete(slug) whose statement does not
\* fail returns nil and removes the rows of slug and no other row (none, if
\* slug had no row); after it the lookup by slug finds nothing and no content
\* is fresh for slug.
C17_DeleteOnlyThat ==
    [][\A p \in Procs :
        (ePc[p] = "idle" /\ ePc'[p] = "de_ret" /\ ~eFault'[p]) =>
            LET slug == eSlug'[p] IN
            /\ eErr'[p] = "nil"
            /\ store' = store \ RowsOf(store, slug)
            /\ RowsOf(store, slug) = {} => store' = store
            /\ RowsOf(store', slug) = {}
            /\ \A content \in Contents :
                ~\E r \in store' :
                    /\ r.Slug = slug
                    /\ r.ContentHash = CalculateContentHash(content)
                    /\ r.ModelVersion = modelVersion'
      ]_vars

\* Two records were generated, one per slug; a delete has removed the
\* later one and the earlier one is still there.
C17_Witness ==
    \E p \in Procs :
        /\ ePc[p] = "de_ret"
        /\ ~eFault[p]
        /\ now = 3
        /\ \E r \in store :
            /\ store = {r}
            /\ r.Slug # eSlug[p]
            /\ r.CreatedAt = 1

\* ----------------------------------------------------------- searches
SearchReturns == {"vs_ret", "vt_ret", "ss_ret", "sw_ret", "hy_ret"}

\* C12: a search returns the identifier of no stale record: every
\* identifier in the results of a search that has just returned belongs to
\* a row generated under the configured model version, with a fingerprint.
C12_StaleNotReturned ==
    \A p \in Procs :
        ePc[p] \in SearchReturns =>
            \A i \in DOMAIN eRes[p] :
                \E r \in store :
                    /\ r.Slug = eRes[p][i].Slug
                    /\ r.ModelVersion = modelVersion
                    /\ r.ContentHash # ""

\* C13: a GetEmbedding, IndexAll, SemanticSearch.Search,
\* SemanticSearch.SearchWithThreshold or HybridSearch call made while the
\* service is disabled returns an empty result and no error, calls the
\* provider not once and leaves the table as it was.
C13_DisabledFrame ==
    [][\A p \in Procs :
        (/\ ePc[p] = "idle"
         /\ ePc'[p] \in {"ge_ret", "ia_ret", "ss_ret", "sw_ret", "hy_ret"}
         /\ ~enabled) =>
            /\ eRes'[p] = <<>>
            /\ eErr'[p] = "nil"
            /\ eCalls'[p] = 0
            /\ store' = store
      ]_vars

\* The score VectorSearch.Search gives a row for a query.
Score(query, r) == CosineSimilarity(query, BytesToVector(r.Vector))

NonIncreasing(results) ==
    \A i \in 1..(Len(results) - 1) :
        results[i].Similarity >= results[i + 1].Similarity

\* Every result is a row with its score, and no row is there twice.
ScoredRows(results, query) ==
    /\ \A i \in DOMAIN results :
        \E r \in store :
            /\ r.Slug = results[i].Slug
            /\ results[i].Similarity = Score(query, r)
    /\ \A i, j \in DOMAIN results :
        results[i].Slug = results[j].Slug => i = j

Min(a, b) == IF a < b THEN a ELSE b

\* C18: VectorSearch.Search(query, limit) whose query of the table does
\* not fail returns min(limit, number of rows) results, limit <= 0 counting
\* as 10, each a row with its score, in non-increasing order of score, and
\* no row left out has a score greater than a returned one.
C18_TopRanked ==
    \A p \in Procs :
        (ePc[p] = "vs_ret" /\ eErr[p] = "nil") =>
            LET limit == IF eArgs[p].limit <= 0 THEN 10 ELSE eArgs[p].limit
                results == eRes[p]
            IN /\ Len(results) = Min(limit, Cardinality(store))
               /\ NonIncreasing(results)
               /\ ScoredRows(results, eVec[p])
               /\ \A r \in store :
                    (\A i \in DOMAIN results : results[i].Slug # r.Slug) =>
                        \A i \in DOMAIN results :
                            Score(eVec[p], r) <= results[i].Similarity

\* Three rows of three different scores searched with limit 2: the two
\* highest are returned, the higher first.
C18_Witness ==
    \E p \in Procs :
        /\ ePc[p] = "vs_ret"
        /\ eErr[p] = "nil"
        /\ eArgs[p].limit = 2
        /\ Cardinality(store) = 3
        /\ Len(eRes[p]) = 2
        /\ eRes[p][1].Similarity > eRes[p][2].Similarity
        /\ \E r \in store : Score(eVec[p], r) < eRes[p][2].Similarity

\* C19: the results VectorSearch.SearchWithThreshold(query, threshold,
\* limit) returns are rows with their scores, each score at least threshold,
\* at most limit of them, in non-increasing order of score.
C19_AboveThreshold ==
    \A p \in Procs :
        (ePc[p] = "vt_ret" /\ eErr[p] = "nil") =>
            LET results == eRes[p] IN
            /\ \A i \in DOMAIN results :
                results[i].Similarity >= eArgs[p].threshold
            /\ Len(results) <= eArgs[p].limit
            /\ NonIncreasing(results)
            /\ ScoredRows(results, eVec[p])

\* Of two rows one scores below the threshold: with limit 2 the other one
\* alone is returned.
C19_Witness ==
    \E p \in Procs :
        /\ ePc[p] = "vt_ret"
        /\ eErr[p] = "nil"
        /\ eArgs[p].limit = 2
        /\ Len(eRes[p]) = 1
        /\ \E r \in store : Score(eVec[p], r) < eArgs[p].threshold

\* C20: in the results of a HybridSearch, of two identifiers whose rows
\* have the same semantic score, one among keywordMatches and the other
\* not, the one among keywordMatches comes first.
C20_KeywordFirst ==
    \A p \in Procs :
        (ePc[p] = "hy_ret" /\ eErr[p] = "nil") =>
            LET results == eRes[p]
                Semantic(i) ==
                    Score(eVec[p],
                          CHOOSE r \in store : r.Slug = results[i].Slug)
            IN \A i, j \in DOMAIN results :
                (/\ results[i].Slug \in eArgs[p].keywords
                 /\ results[j].Slug \notin eArgs[p].keywords
                 /\ Semantic(i) = Semantic(j)) => i < j

\* ------------------------------------------------------ pure functions
\* C21: CosineSimilarity(a, b) and CosineSimilarity(b, a) are equal
\* numbers; for a and b of the same length and neither all-zero the result
\* is a number from -1 to 1; it is 0 when the lengths differ or one of
\* them is all-zero.
C21_CosineRange ==
    \A p \in Procs :
        ePc[p] = "cs_ret" =>
            LET a == eVec[p]
                b == eArgs[p].b
                s == eRes[p][1]
                AllZero(v) == \A i \in DOMAIN v : v[i] = 0
            IN /\ s # NaN /\ s = CosineSimilarity(b, a)
               /\ (Len(a) = Len(b) /\ ~AllZero(a) /\ ~AllZero(b)) =>
                    (s # NaN /\ -Scale <= s /\ s <= Scale)
               /\ (Len(a) # Len(b) \/ AllZero(a) \/ AllZero(b)) => s = 0

\* C22: VectorToBytes(vector) is 4 * len(vector) bytes which BytesToVector
\* turns back into vector, component for component; BytesToVector(data)
\* returns len(data) / 4 components, rounded down, those of the whole
\* words of data, whatever the length of data.
C22_CodecRoundTrip ==
    \A p \in Procs :
        /\ ePc[p] = "vb_ret" =>
            /\ Len(eRes[p]) = 4 * Len(eVec[p])
            /\ BytesToVector(eRes[p]) = eVec[p]
        /\ ePc[p] = "bv_ret" =>
            LET data == eVec[p]
                words == SubSeq(data, 1, 4 * (Len(data) \div 4))
            IN /\ eErr[p] = "nil"
               /\ Len(eRes[p]) = Len(data) \div 4
               /\ eRes[p] = BytesToVector(words)
               /\ VectorToBytes(eRes[p]) = words

\* A vector of a negative and of the largest odd float32 has been encoded.
C22_Witness ==
    \E p \in Procs :
        /\ ePc[p] = "vb_ret"
        /\ eVec[p] = <<-3, 16777215>>
        /\ Len(eRes[p]) = 8

\* ---------------------------------------------------- registry, again
\* The callers between RLock and RUnlock, and those between Lock and Unlock.
InReadSection == {p \in Procs : pc[p] = "g_runlock"}
InWriteSection == {p \in Procs : pc[p] \in {"g_unlock", "c_unlock", "a_unlock"}}

\* C23: after every step at most one caller is between Lock and Unlock,
\* and then none is between RLock and RUnlock; the registry and the state
\* of the connections change only in a step of the caller that holds the
\* write lock, taken when no lookup was in the read section.
C23_LockDiscipline ==
    [][/\ Cardinality(InWriteSection') <= 1
       /\ InWriteSection' # {} => InReadSection' = {}
       /\ InReadSection' = muReaders'
       /\ InWriteSection' = {muWriter'} \ {NoProc}
       /\ (userDBs' # userDBs \/ hState' # hState) =>
            /\ muWriter' # NoProc
            /\ muWriter \in {NoProc, muWriter'}
            /\ muReaders = {} /\ muReaders' = {}
      ]_vars

\* Two lookups are in the read section at once.
C23_Witness ==
    /\ InReadSection = Procs
    /\ muWriter = NoProc

\* C24: when the open of a GetUserDB(path) has failed, the error is what
\* is returned, nothing is registered for path, and no connection is left
\* open outside the registry.
C24_FailedOpenLeavesNothing ==
    \A p \in Procs :
        (pc[p] = "g_unlock" /\ err[p] = "openErr") =>
            /\ db[p] = NoDB
            /\ userDBs[arg[p]] = NoDB
            /\ \A h \in Handles : hState[h] # "orphan"

\* ------------------------------------------------------- cache, again
\* C25: after an upsert of GetEmbedding that succeeds, the one row of the
\* slug is the record just built, field for field: fingerprint, model
\* name, model version, dimensions, vector and creation time.
C25_FullOverwrite ==
    [][\A p \in Procs :
        (ePc[p] = "ge_upsert" /\ ePc'[p] = "ge_ret" /\ eErr'[p] = "nil") =>
            RowsOf(store', eSlug[p]) =
                {NewEmbedding(eSlug[p], CalculateContentHash(eContent[p]),
                              eVec[p])}
      ]_vars

\* C26: when two GetEmbedding calls for the same slug have both called the
\* provider and both written, the table holds one row for the slug and it
\* is, field for field, what one of the two wrote: its fingerprint, vector
\* and dimensions are that caller's, its model name and version the
\* configured ones.
C26_LastWriterWins ==
    \A p, q \in Procs :
        (/\ p # q
         /\ ePc[p] = "ge_ret" /\ ePc[q] = "ge_ret"
         /\ eOp[p] = "getEmbedding" /\ eOp[q] = "getEmbedding"
         /\ eSlug[p] = eSlug[q]
         /\ eErr[p] = "nil" /\ eErr[q] = "nil"
         /\ eCalls[p] = 1 /\ eCalls[q] = 1) =>
            \E r \in store, w \in {p, q} :
                /\ RowsOf(store, eSlug[p]) = {r}
                /\ r.ContentHash = CalculateContentHash(eContent[w])
                /\ BytesToVector(r.Vector) = eRes[w]
                /\ r.Dimensions = Len(eRes[w])
                /\ r.ModelName = modelName
                /\ r.ModelVersion = modelVersion

\* C27: every row's dimensions is the number of components its vector
\* decodes to, and its vector is 4 * dimensions bytes long.
C27_DimensionsMatch ==
    \A r \in store :
        /\ r.Dimensions = Len(BytesToVector(r.Vector))
        /\ Len(r.Vector) = 4 * r.Dimensions

\* A row written by Store with one component has been regenerated by
\* GetEmbedding with two, and another row is as Store wrote it.
C27_Witness ==
    /\ \E p \in Procs : ePc[p] = "ge_ret" /\ eCalls[p] = 1 /\ eErr[p] = "nil"
    /\ \E r \in store :
        /\ r.ModelName = "" /\ r.ContentHash # "" /\ r.Dimensions = 2
    /\ \E r \in store : r.ContentHash = "" /\ r.Dimensions = 1

LookupOps ==
    {"getCachedEmbedding", "isStale", "getContentHash", "countEmbeddings",
     "count", "search"}

\* C29: GetCachedEmbedding, IsStale, GetContentHash, CountEmbeddings,
\* Count and VectorSearch.Search leave the table as it is and call the
\* provider never; a row is created or modified only in a step of
\* GetEmbedding, IndexAll or Store, and the rows of a slug disappear only
\* in a step of DeleteEmbedding or Delete of that slug.
C29_LookupsReadOnly ==
    [][/\ \A p \in Procs :
            (ePc[p] = "idle" /\ eOp'[p] \in LookupOps) =>
                /\ store' = store
                /\ eCalls'[p] = 0
                /\ eAsked'[p] = eAsked[p]
       /\ \A slug \in SearchSlugs :
            (RowsOf(store', slug) # RowsOf(store, slug)
             /\ RowsOf(store', slug) # {}) =>
                \E p \in Procs :
                    /\ eSlug'[p] = slug
                    /\ \/ ePc[p] = "ge_upsert"
                          /\ eOp[p] \in {"getEmbedding", "indexAll"}
                       \/ ePc[p] = "idle" /\ eOp'[p] = "store"
       /\ \A slug \in SearchSlugs :
            (RowsOf(store, slug) # {} /\ RowsOf(store', slug) = {}) =>
                \E p \in Procs :
                    /\ ePc[p] = "idle"
                    /\ eOp'[p] \in {"deleteEmbedding", "delete"}
                    /\ eSlug'[p] = slug
      ]_vars

\* IsStale has answered true for a slug whose row has another fingerprint
\* than the content asked about, and the row is still that one, in a
\* table of two rows.
C29_Witness ==
    \E p \in Procs :
        /\ ePc[p] = "is_ret"
        /\ eRes[p] = <<TRUE>>
        /\ Cardinality(store) = 2
        /\ \E r \in store :
            /\ r.Slug = eSlug[p]
            /\ r.ContentHash # ""
            /\ r.ContentHash # CalculateContentHash(eContent[p])


\* --------------------------------------------------------- tool contexts
\* C30: when the CloseUserDB of a tool context has been followed by a
\* ReopenUserDB of it that returned nil, the context's UserDB is an open
\* connection, and for the context with a manager the one registered for
\* its RepoPath; this for the context with a manager and the one without.
C30_ReopenedIsOpen ==
    \A c \in Contexts :
        (tcPrev[c] = "close" /\ tcLast[c] = "reopen" /\ tcErr[c] = "nil") =>
            /\ tcUserDB[c] # NoDB
            /\ hState[tcUserDB[c]] = "open"
            /\ c = "managed" => userDBs[RepoPath[c]] = tcUserDB[c]


\* ------------------------------------------------- returned connection
\* C31: at the step in which GetUserDB or ReopenUserDB hands a connection
\* to its caller without error, that connection is open and is the one
\* registered for the path, whatever CloseUserDB, ReopenUserDB and Close
\* calls of other callers have run meanwhile.
C31_ReturnedIsOpenAndRegistered ==
    [][\A p \in Procs :
          (/\ pc[p] = "g_ret"
           /\ pc'[p] = "idle"
           /\ op[p] \in {"get", "reopen", "sync"}
           /\ err[p] = "nil") =>
              /\ db[p] # NoDB
              /\ hState[db[p]] = "open"
              /\ userDBs[arg[p]] = db[p]
      ]_vars


\* --------------------------------------------------------- one store
\* C32: two different registry keys whose database file is the same never
\* hold two connections: when both are registered, it is with one and the
\* same connection.
C32_OneHandlePerStore ==
    \A k1, k2 \in Keys :
        (/\ k1 # k2
         /\ GetUserDBPath(k1) = GetUserDBPath(k2)
         /\ userDBs[k1] # NoDB
         /\ userDBs[k2] # NoDB) =>
            userDBs[k1] = userDBs[k2]


\* ------------------------------------------------- delete and in flight
\* C33: a GetEmbedding(slug, ...) that was in flight when a
\* DeleteEmbedding(slug) removed the row and returned does not create a
\* row for slug again.
C33_DeletedStaysDeleted ==
    [][\A p \in Procs :
          (/\ ePc[p] = "ge_upsert"
           /\ eOp[p] = "getEmbedding"
           /\ eDeleted[p]
           /\ RowsOf(store, eSlug[p]) = {}) =>
              RowsOf(store', eSlug[p]) = {}
      ]_vars


\* ------------------------------------------------- threshold and limit
\* The rows whose score for query is at least threshold.
Passing(query, threshold) == {r \in store : Score(query, r) >= threshold}

C35_AnyLimitCompletes ==
    \A p \in Procs :
        ePc[p] \in {"vt_ret", "hy_ret"} =>
            /\ eErr[p] # "panic"
            /\ (eErr[p] = "nil" /\ eArgs[p].limit <= 0) =>
                  Len(eRes[p]) =
                     Min(10, IF ePc[p] = "vt_ret"
                             THEN Cardinality(Passing(eVec[p],
                                                      eArgs[p].threshold))
                             ELSE Cardinality(store))


\* ------------------------------------------------------ stored directly
\* The row of slug is as VectorSearch.Store writes it.
StoredDirectly(slug) ==
    \E r \in store :
        r.Slug = slug /\ r.ContentHash = "" /\ r.ModelVersion = ""

\* C36: a Store(slug, vector) that succeeds leaves one row for slug, with
\* that vector and an empty fingerprint, model name and model version,
\* whatever the row was; while the row is so, IsStale(slug, content)
\* answers true for every content, a GetEmbedding(slug, content) on the
\* enabled service does not take the row for a cached one and goes to the
\* provider, and its upsert puts the provider's vector and the fingerprint
\* of content in the row.
C36_StoredIsStale ==
    [][\A p \in Procs :
        /\ (ePc[p] = "idle" /\ ePc'[p] = "st_ret" /\ eErr'[p] = "nil") =>
              \E r \in store' :
                  /\ RowsOf(store', eSlug'[p]) = {r}
                  /\ r.ContentHash = "" /\ r.ModelName = ""
                  /\ r.ModelVersion = ""
                  /\ BytesToVector(r.Vector) = eVec'[p]
        /\ (/\ ePc[p] = "idle" /\ ePc'[p] = "is_ret"
            /\ StoredDirectly(eSlug'[p])) =>
              eRes'[p] = <<TRUE>>
        /\ (/\ ePc[p] = "idle" /\ eOp'[p] = "getEmbedding" /\ enabled
            /\ StoredDirectly(eSlug'[p])) =>
              ePc'[p] = "ge_embed"
        /\ (/\ ePc[p] = "ge_embed" /\ StoredDirectly(eSlug[p])
            /\ eErr'[p] = "nil") =>
              eCalls'[p] = 1 /\ ePc'[p] = "ge_upsert"
        /\ (/\ ePc[p] = "ge_upsert" /\ StoredDirectly(eSlug[p])
            /\ eErr'[p] = "nil") =>
              \E r \in store' :
                  /\ RowsOf(store', eSlug[p]) = {r}
                  /\ r.ContentHash = CalculateContentHash(eContent[p])
                  /\ r.ModelVersion = modelVersion
                  /\ BytesToVector(r.Vector) = eVec[p]
                  /\ eRes'[p] = eVec[p]
      ]_vars

\* A GetEmbedding for a slug whose row Store had written has called the
\* provider once and returned its vector, which is now in the row beside
\* the fingerprint of the content; the empty model name is what is left
\* of Store.
C36_Witness ==
    \E p \in Procs :
        /\ ePc[p] = "ge_ret"
        /\ eOp[p] = "getEmbedding"
        /\ eErr[p] = "nil"
        /\ eCalls[p] = 1
        /\ \E r \in store :
            /\ r.Slug = eSlug[p]
            /\ r.ModelName = ""
            /\ r.ContentHash = CalculateContentHash(eContent[p])
            /\ BytesToVector(r.Vector) = eRes[p]

\* ---------------------------------------------------------- text search
\* The searches by query text.
TextSearchOps ==
    {"semanticSearch", "semanticSearchWithThreshold", "hybridSearch"}

\* C37: a SemanticSearch.Search, SearchWithThreshold or HybridSearch on the
\* enabled service calls the provider once, leaves the table as it is, and
\* returns the provider's failure with no result.
C37_TextSearchFrame ==
    [][\A p \in Procs :
          (ePc[p] = "idle" /\ eOp'[p] \in TextSearchOps /\ enabled) =>
              /\ eCalls'[p] = 1
              /\ store' = store
              /\ eErr'[p] = "provider" => eRes'[p] = <<>>
      ]_vars

\* A search by text over a table of two rows cached by GetEmbedding has
\* asked the provider once and returned both rows.
C37_Witness ==
    \E p \in Procs :
        /\ ePc[p] = "ss_ret"
        /\ eOn[p]
        /\ eCalls[p] = 1
        /\ eErr[p] = "nil"
        /\ Len(eRes[p]) = 2
        /\ Cardinality(store) = 2

\* ------------------------------------------------------------ progress
\* C38: with callers that are scheduled fairly, every GetUserDB,
\* CloseUserDB, ReopenUserDB and Close that has begun returns, and the
\* registry lock, taken for writing or for reading, is released again,
\* after an error as after a success.
C38_EveryCallReturns ==
    /\ \A p \in Procs : (pc[p] # "idle") ~> (pc[p] = "idle")
    /\ (muWriter # NoProc) ~> (muWriter = NoProc)
    /\ (muReaders # {}) ~> (muReaders = {})

\* A CloseUserDB holds the write lock and is about to return an error,
\* while the GetUserDB of another caller waits for the write lock.
C38_Witness ==
    \E p, q \in Procs :
        /\ pc[p] = "c_unlock"
        /\ muWriter = p
        /\ err[p] # "nil"
        /\ pc[q] = "g_lock"

====
